---- MODULE Spec2Model ----
(***************************************************************************)
(* Model of the ip-cam-monitor alarm pipeline:                             *)
(*   - extract_alarm_photo_hybrid  (alarm_hybrid_extractor.py)             *)
(*   - fetch_recent_alarm_markers  (alarm_index.py)                        *)
(*   - alarm_poll_loop and its jobs (alarm_polling.py)                     *)
(* Each component has its own group of variables and its own              *)
(* specification; the other groups stay idle under that specification.     *)
(***************************************************************************)
EXTENDS Integers, Sequences, FiniteSets, TLC

(***************************************************************************)
(* Common encodings.                                                       *)
(*   Optional values: <<>> is Python's None, <<x>> is the value x.         *)
(*   Time texts are strings; a datetime is the number of seconds since     *)
(*   midnight of the modelled day.                                         *)
(***************************************************************************)
None == <<>>

Some(x) == <<x>>

\* Result of _parse_dt on a text that strptime rejects.
NoneDt == -1

\* The time texts the modelled camera can put in a row.  Two of them are
\* different texts of the same instant (strptime accepts unpadded fields).
ParseTable ==
    [s \in {"2024-01-01 10:00:05", "2024-01-01 10:00:09", "2024-01-01 10:00:12",
            "2024-01-01 10:05:00", "2024-01-01 10:0:5", "2024-01-01 09:58:00",
            "2024-01-01 09:59:00", "2024-01-01 10:00:06", "2024-01-01 10:00:10"} |->
        CASE s = "2024-01-01 10:00:05" -> 36005
          [] s = "2024-01-01 10:0:5"   -> 36005
          [] s = "2024-01-01 10:00:06" -> 36006
          [] s = "2024-01-01 10:00:09" -> 36009
          [] s = "2024-01-01 10:00:10" -> 36010
          [] s = "2024-01-01 10:00:12" -> 36012
          [] s = "2024-01-01 10:05:00" -> 36300
          [] s = "2024-01-01 09:58:00" -> 35880
          [] s = "2024-01-01 09:59:00" -> 35940]

\* datetime.strptime(str(s), "%Y-%m-%d %H:%M:%S"), None on failure.
_parse_dt(s) == IF s \in DOMAIN ParseTable THEN ParseTable[s] ELSE NoneDt

Abs(n) == IF n < 0 THEN -n ELSE n

Max2(a, b) == IF a >= b THEN a ELSE b

Min2(a, b) == IF a <= b THEN a ELSE b

(***************************************************************************)
(* Variables.                                                              *)
(***************************************************************************)
VARIABLES
    \* ---- extract_alarm_photo_hybrid ----
    h_pc,          \* position in extract_alarm_photo_hybrid
    h_in,          \* its arguments and the module flag HAS_DVRIP
    meta,          \* the meta dict
    idea1_meta,    \* local idea1_meta
    motion_meta,   \* local motion_meta
    idea1_jpeg,    \* local idea1_jpeg ("" is None)
    motion_jpeg,   \* local motion_jpeg ("" is None)
    h_picked,      \* local picked (optional row)
    h_attempt,     \* attempt counter inside _download_with_retries
    h_raw,         \* local raw (downloaded payload)
    h_ret,         \* the returned jpeg ("" is None), valid when h_pc = "returned"
    h_net,         \* the network operations issued so far, in order
    \* ---- _download_with_retries ----
    d_pc,          \* position in _download_with_retries
    d_in,          \* its argument retries
    d_attempt,     \* loop variable attempt
    last_err,      \* local last_err ("" is None)
    d_log,         \* the outcome of each download_motion_file_h264 call, in order
    d_sleeps,      \* number of time.sleep(0.8) calls made
    d_out,         \* the returned payload or the raised error, once the call has ended
    \* ---- fetch_recent_alarm_markers ----
    s_pc,          \* position in fetch_recent_alarm_markers
    s_in,          \* its arguments and the module flag HAS_DVRIP
    cursor_end,    \* local cursor_end
    chunk,         \* local chunk, in seconds
    collected,     \* local collected
    seen,          \* local seen
    s_meta,        \* meta["ok"] and meta["reason"]
    meta_chunks,   \* the trailing entries of meta["chunks"] that share one "end"
    rows_len,      \* len(rows) and len(norm) of the latest query
    dup_skipped,   \* line 149 was taken for a key collected by an earlier query
    s_ret,         \* the returned list, valid when s_pc = "returned"
    \* ---- alarm_poll_loop ----
    p_pc,          \* position of the poll loop
    p_in,          \* its arguments
    seeded,        \* local seeded
    known_files,   \* store["known_files"]
    alarms,        \* store["alarms"], newest first
    last_error,    \* store["polling_last_error"] ("" is None)
    p_rows,        \* local rows of the current cycle
    new_markers,   \* local new_markers
    p_i,           \* index of the marker the for loop is at
    jobs,          \* the jobs submitted to the executor, in submission order
    sent,          \* the send_telegram calls made, in order
    polls,         \* number of poll cycles started
    store_lock,    \* the thread that holds store_lock
    last_check,    \* store["last_check"], as the number of the cycle that wrote it
    index0,        \* the markers in the camera's file index when the loop starts
    \* ---- server.py: alarm_store and the threads that share it ----
    srv_lock,        \* the thread that holds alarm_store["lock"]
    srv_known_files, \* alarm_store["known_files"]
    srv_alarms,      \* alarm_store["alarms"], newest first
    srv_last_check,  \* the thread that wrote alarm_store["last_check"] last
    hist_pc,         \* position of alarm_history_poll_loop
    hist_files,      \* its local files
    hist_i,          \* index of the file its for loop is at
    hist_polls,      \* number of its cycles started
    cb_pc,           \* position of the job thread of on_alarm_callback
    cb_file,         \* alarm_entry["file"] of that job
    cb_count,         \* number of callback jobs started
    \* ---- alarm_photo_extractor.py: download_motion_file_h264 ----
    f_pc,          \* position in download_motion_file_h264
    f_stream,      \* the packets the camera sends on the data socket, in order
    ctl,           \* the control socket: "none", "open" or "closed"
    data_sock,     \* the data socket: "none", "open" or "closed"
    packets,       \* local packets: number of data packets read
    raw_1426,      \* local raw_1426, a sequence of bytes
    f_out,          \* the returned bytes or the raised error, once the call has ended
    \* ---- alarm_hybrid_extractor.py: _pick_closest_file ----
    k_pc,          \* position of a _pick_closest_file call
    k_in,          \* its arguments rows and target
    k_ret,          \* the returned row (optional), valid when k_pc = "returned"
    \* ---- alarm_photo_extractor.py: the frame choice of extract_best_jpeg_from_motion_h264 ----
    c_pc,          \* position of the call
    c_in,          \* sample_frame_indexes, score_mode and the clip that was opened
    c_ret,          \* ok, reason and chosen_frame_index of the ExtractResult
    \* ---- alarm_photo_extractor.py: _extract_media_from_1426 ----
    x_pc,          \* how often the demuxer has been applied
    x_in,          \* the argument stream_1426 of the first call, a sequence of bytes
    x_once,        \* the bytes the first call returned
    x_twice,        \* the bytes the call on x_once returned
    \* ---- alarm_photo_extractor.py: concurrent extract_best_jpeg_from_motion_h264 calls ----
    e_pc,          \* position of each worker's call
    e_path,        \* each call's local media_path, as the millisecond it names
    e_src,         \* the call whose media the frames of each call were decoded from
    files,         \* the working directory: which call's media each path holds
    clock,          \* int(time.time() * 1000)
    \* ---- the download commands of extract_alarm_photo_hybrid and extract_alarm_photo_from_motion ----
    r_pc,          \* position of the caller
    r_in,          \* the caller, its retries argument and the index row it chose
    r_req,          \* the StartTime and EndTime of each download command issued, in order
    \* ---- alarm_photo_extractor.py: the loop of _extract_media_from_1426, one iteration per step ----
    y_pc,          \* "loop" while the while loop runs, "done" once it is left
    y_in,          \* the argument stream_1426, a sequence of bytes
    y_cursor,      \* local cursor
    y_remain,      \* local remain
    y_out,         \* local out
    y_pieces       \* ghost: the pieces y_in was cut from

hybVars == <<h_pc, h_in, meta, idea1_meta, motion_meta, idea1_jpeg, motion_jpeg,
             h_picked, h_attempt, h_raw, h_ret, h_net>>

scanVars == <<s_pc, s_in, cursor_end, chunk, collected, seen, s_meta, meta_chunks,
              rows_len, dup_skipped, s_ret>>

pollVars == <<p_pc, p_in, seeded, known_files, alarms, last_error, p_rows,
              new_markers, p_i, jobs, sent, polls, store_lock, last_check, index0>>

dlVars == <<d_pc, d_in, d_attempt, last_err, d_log, d_sleeps, d_out>>

srvVars == <<srv_lock, srv_known_files, srv_alarms, srv_last_check, hist_pc, hist_files,
             hist_i, hist_polls, cb_pc, cb_file, cb_count>>

fdVars == <<f_pc, f_stream, ctl, data_sock, packets, raw_1426, f_out>>

pickVars == <<k_pc, k_in, k_ret>>

chooseVars == <<c_pc, c_in, c_ret>>

demuxVars == <<x_pc, x_in, x_once, x_twice>>

extVars == <<e_pc, e_path, e_src, files, clock>>

reqVars == <<r_pc, r_in, r_req>>

loopVars == <<y_pc, y_in, y_cursor, y_remain, y_out, y_pieces>>

\* The variables each component leaves alone.
hybOthers == <<scanVars, pollVars, dlVars, srvVars, fdVars, pickVars, chooseVars, demuxVars, extVars, reqVars, loopVars>>

scanOthers == <<hybVars, pollVars, dlVars, srvVars, fdVars, pickVars, chooseVars, demuxVars, extVars, reqVars, loopVars>>

pollOthers == <<hybVars, scanVars, dlVars, srvVars, fdVars, pickVars, chooseVars, demuxVars, extVars, reqVars, loopVars>>

dlOthers == <<hybVars, scanVars, pollVars, srvVars, fdVars, pickVars, chooseVars, demuxVars, extVars, reqVars, loopVars>>

srvOthers == <<hybVars, scanVars, pollVars, dlVars, fdVars, pickVars, chooseVars, demuxVars, extVars, reqVars, loopVars>>

fdOthers == <<hybVars, scanVars, pollVars, dlVars, srvVars, pickVars, chooseVars, demuxVars, extVars, reqVars, loopVars>>

pickOthers == <<hybVars, scanVars, pollVars, dlVars, srvVars, fdVars, chooseVars, demuxVars, extVars, reqVars, loopVars>>

chooseOthers == <<hybVars, scanVars, pollVars, dlVars, srvVars, fdVars, pickVars, demuxVars, extVars, reqVars, loopVars>>

demuxOthers == <<hybVars, scanVars, pollVars, dlVars, srvVars, fdVars, pickVars, chooseVars, extVars, reqVars, loopVars>>

extOthers == <<hybVars, scanVars, pollVars, dlVars, srvVars, fdVars, pickVars, chooseVars, demuxVars, reqVars, loopVars>>

reqOthers == <<hybVars, scanVars, pollVars, dlVars, srvVars, fdVars, pickVars, chooseVars, demuxVars, extVars, loopVars>>

loopOthers == <<hybVars, scanVars, pollVars, dlVars, srvVars, fdVars, pickVars, chooseVars, demuxVars, extVars, reqVars>>

(***************************************************************************)
(* extract_alarm_photo_hybrid                                              *)
(***************************************************************************)
\* target_dt of the modelled call: 10:00:10.
TargetDt == 36010

\* Index rows the camera can return to the extractor's queries.
HybRows ==
    { [FileName |-> "/idea1/a.jpg", BeginTime |-> "2024-01-01 10:00:05", EndTime |-> ""],
      [FileName |-> "/idea1/b.jpg", BeginTime |-> "2024-01-01 10:00:09",
       EndTime |-> "2024-01-01 10:00:12"],
      [FileName |-> "/idea1/c.jpg", BeginTime |-> "garbage", EndTime |-> ""] }

\* Longest index reply enumerated for the extractor.
MaxHybReply == 2

HybReplies == UNION { [1..n -> HybRows] : n \in 0..MaxHybReply }

\* JPEG byte strings a decode can produce ("" stands for None / no bytes).
Jpegs == {"jpegA", "jpegB"}

\* _bottom_white_ratio results in percent; NoBw is None.
NoBw == -1

BwRatios == {NoBw, 10, 25, 40}

\* bottom_white_threshold values (percent) the call is made with.
Thresholds == {25, 40}

\* download_retries values the call is made with.
RetryValues == {0, 2}

\* An empty dict for idea1_meta / motion_meta: every key absent.
EmptyTierMeta ==
    [count |-> -1, picked |-> None, download |-> "absent", extract |-> "absent",
     bottom_white_ratio |-> NoBw, error |-> "absent"]

\* key of one row in _pick_closest_file: <<0 if in_range else 1, delta>>.
PickKey(r, target) ==
    LET bt == _parse_dt(r.BeginTime)
        et == _parse_dt(r.EndTime)
        in_range == IF et # NoneDt THEN bt <= target /\ target <= et ELSE FALSE
    IN  <<IF in_range THEN 0 ELSE 1, Abs(bt - target)>>

\* The comparison key <= best_key: a later row of equal key replaces the
\* row kept.
KeyLessOrEqual(k, b) == k[1] < b[1] \/ (k[1] = b[1] /\ k[2] <= b[2])

\* Python tuple comparison key < best_key.
KeyLess(k, b) == k[1] < b[1] \/ (k[1] = b[1] /\ k[2] < b[2])

RECURSIVE PickFrom(_, _, _, _)
PickFrom(rows, i, best, target) ==
    IF i > Len(rows) THEN best
    ELSE LET r == rows[i]
         IN  IF _parse_dt(r.BeginTime) = NoneDt
             THEN PickFrom(rows, i + 1, best, target)
             ELSE IF best = None \/ KeyLess(PickKey(r, target), PickKey(best[1], target))
                  THEN PickFrom(rows, i + 1, Some(r), target)
                  ELSE PickFrom(rows, i + 1, best, target)

_pick_closest_file(rows, target) == PickFrom(rows, 1, None, target)

\* The argument counted as the retries after a first attempt.
TriesAfterFirst(retries) == Max2(1, retries) + 1

\* tries = max(1, int(retries))
Tries(retries) == Max2(1, retries)

HybInit ==
    /\ h_pc = "start"
    /\ h_in \in [HAS_DVRIP : BOOLEAN, password : {"", "secret"},
                 download_retries : RetryValues, bottom_white_threshold : Thresholds]
    /\ meta = [ok |-> FALSE, reason |-> "init", chosen |-> "", idea1 |-> None, motion |-> None]
    /\ idea1_meta = EmptyTierMeta
    /\ motion_meta = EmptyTierMeta
    /\ idea1_jpeg = ""
    /\ motion_jpeg = ""
    /\ h_picked = None
    /\ h_attempt = 0
    /\ h_raw = ""
    /\ h_ret = ""
    /\ h_net = <<>>

\* The call returns (jpeg, meta).
HybReturn(jpeg, m) ==
    /\ h_pc' = "returned"
    /\ h_ret' = jpeg
    /\ meta' = m

\* Lines 193-212: availability and password checks.
HybStart ==
    /\ h_pc = "start"
    /\ IF ~h_in.HAS_DVRIP
       THEN HybReturn("", [meta EXCEPT !.reason = "python-dvr_not_available"])
       ELSE IF h_in.password = ""
            THEN HybReturn("", [meta EXCEPT !.reason = "empty_password"])
            ELSE /\ h_pc' = "idea1_login"
                 /\ UNCHANGED <<h_ret, meta>>
    /\ UNCHANGED <<h_in, idea1_meta, motion_meta, idea1_jpeg, motion_jpeg, h_picked,
                   h_attempt, h_raw, h_net>>
    /\ UNCHANGED hybOthers

Idea1LeaveAbort(im) ==
    /\ idea1_meta' = im
    /\ HybReturn("", [meta EXCEPT !.idea1 = Some(im), !.reason = "no_photo"])

\* Leaving the first try block (except/finally), then line 286.
Idea1Leave(im) ==
    /\ idea1_meta' = im
    /\ meta' = [meta EXCEPT !.idea1 = Some(im)]
    /\ h_pc' = "decide"
    /\ UNCHANGED <<h_ret>>

\* Lines 214-217: DVRIPCam(...) and cam.login().
Idea1Login ==
    /\ h_pc = "idea1_login"
    /\ h_net' = Append(h_net, "idea1.login")
    /\ \E outcome \in {"ok", "refused", "raise"} :
        CASE outcome = "ok" ->
                /\ h_pc' = "idea1_query"
                /\ UNCHANGED <<meta, idea1_meta, h_ret>>
          [] outcome = "refused" ->
                /\ HybReturn("", [meta EXCEPT !.reason = "dvrip_login_failed"])
                /\ UNCHANGED idea1_meta
          [] outcome = "raise" ->
                Idea1Leave([idea1_meta EXCEPT !.error = "error"])
    /\ UNCHANGED <<h_in, motion_meta, idea1_jpeg, motion_jpeg, h_picked, h_attempt, h_raw>>
    /\ UNCHANGED hybOthers

\* Lines 219-232: index query in the +-20 s window and _pick_closest_file.
Idea1Query ==
    /\ h_pc = "idea1_query"
    /\ h_net' = Append(h_net, "idea1.query")
    /\ \/ \E rows \in HybReplies :
            LET picked == _pick_closest_file(rows, TargetDt)
                im == [EmptyTierMeta EXCEPT !.count = Len(rows), !.picked = picked]
            IN  /\ h_picked' = picked
                /\ IF picked # None
                   THEN /\ h_pc' = "idea1_download"
                        /\ h_attempt' = 1
                        /\ idea1_meta' = im
                        /\ UNCHANGED <<meta, h_ret>>
                   ELSE /\ Idea1Leave(im)
                        /\ UNCHANGED h_attempt
       \/ /\ Idea1Leave([idea1_meta EXCEPT !.error = "error"])
          /\ UNCHANGED <<h_picked, h_attempt>>
    /\ UNCHANGED <<h_in, motion_meta, idea1_jpeg, motion_jpeg, h_raw>>
    /\ UNCHANGED hybOthers

\* Lines 238-249 with _download_with_retries (lines 145-166): one attempt.
Idea1Download ==
    /\ h_pc = "idea1_download"
    /\ h_net' = Append(h_net, "idea1.download")
    /\ \/ \E raw \in {"", "payload"} :
            /\ h_raw' = raw
            /\ h_pc' = "idea1_extract"
            /\ UNCHANGED <<h_attempt, idea1_meta, meta, h_ret>>
       \/ IF h_attempt < Tries(h_in.download_retries)
          THEN /\ h_attempt' = h_attempt + 1
               /\ UNCHANGED <<h_pc, h_raw, idea1_meta, meta, h_ret>>
          ELSE /\ Idea1Leave([idea1_meta EXCEPT !.error = "error"])
               /\ UNCHANGED <<h_attempt, h_raw>>
    /\ UNCHANGED <<h_in, motion_meta, idea1_jpeg, motion_jpeg, h_picked>>
    /\ UNCHANGED hybOthers

\* Lines 252-276: extract_best_jpeg_from_motion_h264 in content mode.
Idea1Extract ==
    /\ h_pc = "idea1_extract"
    /\ \/ \E j \in Jpegs, bw \in BwRatios :
            /\ h_raw # ""
            /\ idea1_jpeg' = j
            /\ Idea1Leave([idea1_meta EXCEPT !.download = "ok", !.extract = "ok",
                                             !.bottom_white_ratio = bw])
       \/ /\ idea1_jpeg' = idea1_jpeg
          /\ Idea1Leave([idea1_meta EXCEPT !.download = "ok", !.extract = "failed"])
       \/ /\ h_raw # ""
          /\ idea1_jpeg' = idea1_jpeg
          /\ Idea1Leave([idea1_meta EXCEPT !.error = "error"])
    /\ UNCHANGED <<h_in, motion_meta, motion_jpeg, h_picked, h_attempt, h_raw, h_net>>
    /\ UNCHANGED hybOthers

Idea1AcceptedFlipped(bw, threshold) == bw # NoBw /\ bw > threshold

\* Line 295: (bw is not None) and (float(bw) < float(bottom_white_threshold)).
Idea1Accepted(bw, threshold) == bw # NoBw /\ bw < threshold

\* Lines 288-304: decide whether the idea1 frame is accepted.
HybDecide ==
    /\ h_pc = "decide"
    /\ IF idea1_jpeg # "" /\ Idea1Accepted(meta.idea1[1].bottom_white_ratio,
                                          h_in.bottom_white_threshold)
       THEN HybReturn(idea1_jpeg, [meta EXCEPT !.ok = TRUE, !.reason = "ok",
                                               !.chosen = "idea1"])
       ELSE /\ h_pc' = "motion_login"
            /\ UNCHANGED <<meta, h_ret>>
    /\ UNCHANGED <<h_in, idea1_meta, motion_meta, idea1_jpeg, motion_jpeg, h_picked,
                   h_attempt, h_raw, h_net>>
    /\ UNCHANGED hybOthers

\* Leaving the second try block (except/finally), then line 378.
MotionLeave(mm) ==
    /\ motion_meta' = mm
    /\ meta' = [meta EXCEPT !.motion = Some(mm)]
    /\ h_pc' = "final"
    /\ UNCHANGED <<h_ret>>

\* Lines 306-308: DVRIPCam(...) and cam.login() of the motion tier.
MotionLogin ==
    /\ h_pc = "motion_login"
    /\ h_net' = Append(h_net, "motion.login")
    /\ \E outcome \in {"ok", "refused", "raise"} :
        CASE outcome = "ok" ->
                /\ h_pc' = "motion_query"
                /\ UNCHANGED <<meta, motion_meta, h_ret>>
          [] outcome = "refused" ->
                MotionLeave([motion_meta EXCEPT !.error = "dvrip_login_failed"])
          [] outcome = "raise" ->
                MotionLeave([motion_meta EXCEPT !.error = "error"])
    /\ UNCHANGED <<h_in, idea1_meta, idea1_jpeg, motion_jpeg, h_picked, h_attempt, h_raw>>
    /\ UNCHANGED hybOthers

\* Lines 310-322: index query in the +-3 min window and _pick_closest_file.
MotionQuery ==
    /\ h_pc = "motion_query"
    /\ h_net' = Append(h_net, "motion.query")
    /\ \/ \E rows \in HybReplies :
            LET picked == _pick_closest_file(rows, TargetDt)
                mm == [EmptyTierMeta EXCEPT !.count = Len(rows), !.picked = picked]
            IN  /\ h_picked' = picked
                /\ IF picked # None
                   THEN /\ h_pc' = "motion_download"
                        /\ h_attempt' = 1
                        /\ motion_meta' = mm
                        /\ UNCHANGED <<meta, h_ret>>
                   ELSE /\ MotionLeave(mm)
                        /\ UNCHANGED h_attempt
       \/ /\ MotionLeave([motion_meta EXCEPT !.error = "error"])
          /\ UNCHANGED <<h_picked, h_attempt>>
    /\ UNCHANGED <<h_in, idea1_meta, idea1_jpeg, motion_jpeg, h_raw>>
    /\ UNCHANGED hybOthers

\* Lines 328-339 with _download_with_retries (lines 145-166): one attempt.
MotionDownload ==
    /\ h_pc = "motion_download"
    /\ h_net' = Append(h_net, "motion.download")
    /\ \/ \E raw \in {"", "payload"} :
            /\ h_raw' = raw
            /\ h_pc' = "motion_extract"
            /\ UNCHANGED <<h_attempt, motion_meta, meta, h_ret>>
       \/ IF h_attempt < Tries(h_in.download_retries)
          THEN /\ h_attempt' = h_attempt + 1
               /\ UNCHANGED <<h_pc, h_raw, motion_meta, meta, h_ret>>
          ELSE /\ MotionLeave([motion_meta EXCEPT !.error = "error"])
               /\ UNCHANGED <<h_attempt, h_raw>>
    /\ UNCHANGED <<h_in, idea1_meta, idea1_jpeg, motion_jpeg, h_picked>>
    /\ UNCHANGED hybOthers

\* Lines 341-368: extract_best_jpeg_from_motion_h264 in sharpness mode.
MotionExtract ==
    /\ h_pc = "motion_extract"
    /\ \/ \E j \in Jpegs, bw \in BwRatios :
            /\ h_raw # ""
            /\ motion_jpeg' = j
            /\ MotionLeave([motion_meta EXCEPT !.download = "ok", !.extract = "ok",
                                               !.bottom_white_ratio = bw])
       \/ /\ motion_jpeg' = motion_jpeg
          /\ MotionLeave([motion_meta EXCEPT !.download = "ok", !.extract = "failed"])
       \/ /\ h_raw # ""
          /\ motion_jpeg' = motion_jpeg
          /\ MotionLeave([motion_meta EXCEPT !.error = "error"])
    /\ UNCHANGED <<h_in, idea1_meta, idea1_jpeg, h_picked, h_attempt, h_raw, h_net>>
    /\ UNCHANGED hybOthers

\* Lines 380-394: the final choice between the two tiers, as the returned
\* jpeg and the meta fields it sets.
FinalChoiceMotionLast(mj, ij) ==
    IF ij # ""
    THEN [jpeg |-> ij, ok |-> TRUE, reason |-> "ok_but_bottom_white", chosen |-> "idea1"]
    ELSE IF mj # ""
         THEN [jpeg |-> mj, ok |-> TRUE, reason |-> "ok_fallback_motion", chosen |-> "motion"]
         ELSE [jpeg |-> "", ok |-> FALSE, reason |-> "no_photo", chosen |-> ""]

FinalChoiceMislabeled(mj, ij) ==
    IF mj # ""
    THEN [jpeg |-> mj, ok |-> TRUE, reason |-> "ok_fallback_motion", chosen |-> "motion"]
    ELSE IF ij # ""
         THEN [jpeg |-> ij, ok |-> TRUE, reason |-> "ok_but_bottom_white", chosen |-> "motion"]
         ELSE [jpeg |-> "", ok |-> FALSE, reason |-> "no_photo", chosen |-> ""]

FinalChoiceNoLastResort(mj, ij) ==
    IF mj # ""
    THEN [jpeg |-> mj, ok |-> TRUE, reason |-> "ok_fallback_motion", chosen |-> "motion"]
    ELSE [jpeg |-> "", ok |-> FALSE, reason |-> "no_photo", chosen |-> ""]

FinalChoiceOkForgotten(mj, ij) ==
    IF mj # ""
    THEN [jpeg |-> mj, ok |-> FALSE, reason |-> "ok_fallback_motion", chosen |-> "motion"]
    ELSE IF ij # ""
         THEN [jpeg |-> ij, ok |-> TRUE, reason |-> "ok_but_bottom_white", chosen |-> "idea1"]
         ELSE [jpeg |-> "", ok |-> FALSE, reason |-> "no_photo", chosen |-> ""]

FinalChoice(mj, ij) ==
    IF mj # ""
    THEN [jpeg |-> mj, ok |-> TRUE, reason |-> "ok_fallback_motion", chosen |-> "motion"]
    ELSE IF ij # ""
         THEN [jpeg |-> ij, ok |-> TRUE, reason |-> "ok_but_bottom_white", chosen |-> "idea1"]
         ELSE [jpeg |-> "", ok |-> FALSE, reason |-> "no_photo", chosen |-> ""]

\* Lines 378-394: return the final choice.
HybFinal ==
    /\ h_pc = "final"
    /\ LET c == FinalChoice(motion_jpeg, idea1_jpeg)
       IN  HybReturn(c.jpeg, [meta EXCEPT !.ok = c.ok, !.reason = c.reason,
                                          !.chosen = c.chosen])
    /\ UNCHANGED <<h_in, idea1_meta, motion_meta, idea1_jpeg, motion_jpeg, h_picked,
                   h_attempt, h_raw, h_net>>
    /\ UNCHANGED hybOthers

HybNext ==
    \/ HybStart
    \/ Idea1Login
    \/ Idea1Query
    \/ Idea1Download
    \/ Idea1Extract
    \/ HybDecide
    \/ MotionLogin
    \/ MotionQuery
    \/ MotionDownload
    \/ MotionExtract
    \/ HybFinal

(***************************************************************************)
(* _download_with_retries                                                  *)
(***************************************************************************)
\* Largest value of the argument retries that is tried.
MaxRetries == 3

\* int(retries) may be zero or negative.
RetryArgs == -1..MaxRetries

\* The exceptions download_motion_file_h264 raises: socket.timeout and
\* ConnectionResetError from the sockets, RuntimeError("DVRIP login failed")
\* for a login reply whose Ret is not 100 or 515, ConnectionError("socket
\* closed") from _recvn on a short read, ValueError("invalid DVRIP magic").
DownloadErrors == {"timeout", "reset", "login_failed", "socket_closed", "invalid_magic"}

\* What one call of download_motion_file_h264 ends with.
DownloadOutcomes == {"payload"} \cup DownloadErrors

DlInit ==
    /\ d_pc = "attempt"
    /\ d_in \in [retries : RetryArgs]
    /\ d_attempt = 1
    /\ last_err = ""
    /\ d_log = <<>>
    /\ d_sleeps = 0
    /\ d_out = ""

\* Only the two transient socket errors are handled.
CaughtTransientOnly(e) == e \in {"timeout", "reset"}

\* except Exception as e: every error download_motion_file_h264 raises is an
\* Exception.
Caught(e) == e \in DownloadErrors

\* The first error seen is the one raised.
RaisedErrorFirst(log) == log[1]

\* The bare raise in the handler re-raises the exception being handled, the
\* one of the attempt just made.
RaisedError(log) == log[Len(log)]

\* One pass of the for loop up to the sleep: the call returns the payload, or
\* raises; the handler stores the error and either goes on to sleep or
\* re-raises. An exception the handler does not catch leaves the function.
DlAttempt ==
    /\ d_pc = "attempt"
    /\ \E o \in DownloadOutcomes :
          /\ d_log' = Append(d_log, o)
          /\ IF o = "payload"
             THEN /\ d_pc' = "returned"
                  /\ d_out' = o
                  /\ UNCHANGED last_err
             ELSE IF Caught(o)
             THEN /\ last_err' = o
                  /\ IF d_attempt < Tries(d_in.retries)
                     THEN /\ d_pc' = "sleep"
                          /\ UNCHANGED d_out
                     ELSE /\ d_pc' = "raised"
                          /\ d_out' = RaisedError(Append(d_log, o))
             ELSE /\ d_pc' = "raised"
                  /\ d_out' = o
                  /\ UNCHANGED last_err
    /\ UNCHANGED <<d_in, d_attempt, d_sleeps>>
    /\ UNCHANGED dlOthers

\* time.sleep(0.8); continue
DlSleep ==
    /\ d_pc = "sleep"
    /\ d_sleeps' = d_sleeps + 1
    /\ d_attempt' = d_attempt + 1
    /\ d_pc' = "attempt"
    /\ UNCHANGED <<d_in, last_err, d_log, d_out>>
    /\ UNCHANGED dlOthers

DlNext ==
    \/ DlAttempt
    \/ DlSleep

(***************************************************************************)
(* fetch_recent_alarm_markers                                              *)
(***************************************************************************)
\* end_dt of the modelled call: 10:10:00.
EndDt == 36600

\* timedelta(hours=4), the cap on the window width, in seconds.
ChunkCap == 14400

\* The settings the scan is run in: its arguments and the behaviour of the
\* camera.  The first has the defaults of want, cap_guard,
\* initial_chunk_minutes and min_chunk_seconds, a one-hour lookback and a
\* camera whose every reply is truncated at the cap; the second is a small
\* setting in which the camera answers anything and listed rows alone can
\* saturate a query; the third is a long scan for many rows with wide
\* windows, in which the width can reach its floor and the cap.
ScanConfigs ==
    { [want |-> 30, max_lookback_hours |-> 1, initial_chunk_minutes |-> 10,
       min_chunk_seconds |-> 60, cap_guard |-> 60, camera |-> "saturating"],
      [want |-> 2, max_lookback_hours |-> 1, initial_chunk_minutes |-> 30,
       min_chunk_seconds |-> 600, cap_guard |-> 2, camera |-> "any"],
      [want |-> 9, max_lookback_hours |-> 8, initial_chunk_minutes |-> 120,
       min_chunk_seconds |-> 3600, cap_guard |-> 2, camera |-> "any"] }

\* Index rows the camera can return to the scanner.  The third row repeats
\* the first one's file and instant under another text; the last one has a
\* BeginTime that does not parse.
ScanRows ==
    { [FileName |-> "/idea1/a.jpg", BeginTime |-> "2024-01-01 10:00:05"],
      [FileName |-> "/idea1/b.jpg", BeginTime |-> "2024-01-01 10:00:09"],
      [FileName |-> "/idea1/a.jpg", BeginTime |-> "2024-01-01 10:0:5"],
      [FileName |-> "/idea1/c.jpg", BeginTime |-> "garbage"] }

\* Longest list of distinct-looking rows enumerated in one reply.
MaxScanReply == 2

\* max_lookback = timedelta(hours=max(1, int(max_lookback_hours)))
MaxLookback(in) == 3600 * Max2(1, in.max_lookback_hours)

\* oldest_allowed = end_dt - max_lookback
OldestAllowed(in) == EndDt - MaxLookback(in)

\* chunk = timedelta(minutes=max(1, int(initial_chunk_minutes)))
InitialChunk(in) == 60 * Max2(1, in.initial_chunk_minutes)

\* min_chunk = timedelta(seconds=max(1, int(min_chunk_seconds)))
MinChunk(in) == Max2(1, in.min_chunk_seconds)

\* max(1, int(want) // 3)
GrowThreshold(in) == Max2(1, in.want \div 3)

\* A reply of opfilequery: the listed rows followed by pad further rows whose
\* BeginTime does not parse.  The saturating camera fills every reply up
\* with cap_guard such rows.
ScanReplies(in) ==
    { [rows |-> r, pad |-> p] :
        r \in UNION { [1..n -> ScanRows] : n \in 0..MaxScanReply },
        p \in IF in.camera = "saturating" THEN {in.cap_guard} ELSE {0} }

\* len(rows)
RawLen(reply) == Len(reply.rows) + reply.pad

BeginDtUnclamped(cur, ch, in) == cur - ch

\* begin_dt of one iteration (lines 120-122).
BeginDt(cur, ch, in) == Max2(cur - ch, OldestAllowed(in))

ShrinkChunkNoFloor(ch, in) == ch \div 2

ShrinkChunkKept(ch, in) == Max2(MinChunk(in), ch)

\* chunk = max(min_chunk, timedelta(seconds=int(chunk.total_seconds() // 2)))
ShrinkChunk(ch, in) == Max2(MinChunk(in), ch \div 2)

GrowChunkUncapped(ch) == ch * 2

\* chunk = min(timedelta(hours=4), chunk * 2)
GrowChunk(ch) == Min2(ChunkCap, ch * 2)

\* rr["__dt"]
RowDt(r) == _parse_dt(r.BeginTime)

\* Insert r into a list sorted by __dt descending, after the rows that are
\* not older than r (list.sort is stable, also with reverse=True).
RECURSIVE InsertDesc(_, _)
InsertDesc(sorted, r) ==
    IF sorted = <<>> THEN <<r>>
    ELSE IF RowDt(Head(sorted)) >= RowDt(r)
         THEN <<Head(sorted)>> \o InsertDesc(Tail(sorted), r)
         ELSE <<r>> \o sorted

RECURSIVE SortAsc(_)
SortAsc(rows) ==
    IF rows = <<>> THEN <<>>
    ELSE LET rest == SortAsc(Tail(rows))
             h == Head(rows)
             older == SelectSeq(rest, LAMBDA x : RowDt(x) < RowDt(h))
             newer == SelectSeq(rest, LAMBDA x : RowDt(x) >= RowDt(h))
         IN  older \o <<h>> \o newer

\* rows.sort(key=lambda x: x["__dt"], reverse=True)
RECURSIVE SortDesc(_)
SortDesc(rows) ==
    IF rows = <<>> THEN <<>>
    ELSE InsertDesc(SortDesc(SubSeq(rows, 1, Len(rows) - 1)), rows[Len(rows)])

\* normalize_rows: keep the rows whose BeginTime parses, newest first.
normalize_rows(rows) == SortDesc(SelectSeq(rows, LAMBDA r : RowDt(r) # NoneDt))

\* key = f"{r.get('FileName', '')}|{r.get('BeginTime', '')}"
RowKey(r) == r.FileName \o "|" \o r.BeginTime

IsSeenNever(key, sn) == FALSE

\* if key in seen
IsSeen(key, sn) == key \in sn

\* Lines 146-151: append the rows of norm whose key is new.
RECURSIVE CollectFrom(_, _, _, _)
CollectFrom(norm, i, coll, sn) ==
    IF i > Len(norm) THEN [collected |-> coll, seen |-> sn]
    ELSE IF IsSeen(RowKey(norm[i]), sn)
         THEN CollectFrom(norm, i + 1, coll, sn)
         ELSE CollectFrom(norm, i + 1, Append(coll, norm[i]), sn \cup {RowKey(norm[i])})

\* collected[: int(want)]
Take(seq, n) == SubSeq(seq, 1, Min2(n, Len(seq)))

\* The component is not running (under the other specifications).
ScanIdle ==
    /\ s_pc = "idle"
    /\ s_in = [want |-> 30, max_lookback_hours |-> 24, initial_chunk_minutes |-> 10,
               min_chunk_seconds |-> 60, cap_guard |-> 60, camera |-> "any",
               HAS_DVRIP |-> TRUE, password |-> "secret"]
    /\ cursor_end = EndDt
    /\ chunk = 0
    /\ collected = <<>>
    /\ seen = {}
    /\ s_meta = [ok |-> FALSE, reason |-> "init"]
    /\ meta_chunks = <<>>
    /\ rows_len = [raw |-> 0, parsed |-> 0]
    /\ dup_skipped = FALSE
    /\ s_ret = <<>>

ScanInit ==
    /\ s_pc = "start"
    /\ s_in \in { [want |-> c.want, max_lookback_hours |-> c.max_lookback_hours,
                   initial_chunk_minutes |-> c.initial_chunk_minutes,
                   min_chunk_seconds |-> c.min_chunk_seconds, cap_guard |-> c.cap_guard,
                   camera |-> c.camera, HAS_DVRIP |-> h, password |-> pw] :
                  c \in ScanConfigs, h \in BOOLEAN, pw \in {"", "secret"} }
    /\ cursor_end = EndDt
    /\ chunk = 0
    /\ collected = <<>>
    /\ seen = {}
    /\ s_meta = [ok |-> FALSE, reason |-> "init"]
    /\ meta_chunks = <<>>
    /\ rows_len = [raw |-> 0, parsed |-> 0]
    /\ dup_skipped = FALSE
    /\ s_ret = <<>>

\* return [], meta with the given reason.
ScanReturnEmpty(reason) ==
    /\ s_pc' = "returned"
    /\ s_meta' = [s_meta EXCEPT !.reason = reason]
    /\ s_ret' = <<>>

\* Lines 98-103: availability and password checks.
ScanStart ==
    /\ s_pc = "start"
    /\ IF ~s_in.HAS_DVRIP
       THEN ScanReturnEmpty("python-dvr_not_available")
       ELSE IF s_in.password = ""
            THEN ScanReturnEmpty("empty_password")
            ELSE /\ s_pc' = "login"
                 /\ UNCHANGED <<s_meta, s_ret>>
    /\ UNCHANGED <<s_in, cursor_end, chunk, collected, seen, meta_chunks, rows_len,
                   dup_skipped>>
    /\ UNCHANGED scanOthers

\* Lines 105-118: login, then the locals of the loop.
ScanLogin ==
    /\ s_pc = "login"
    /\ \E outcome \in {"ok", "refused", "raise"} :
        CASE outcome = "ok" ->
                /\ s_pc' = "loop"
                /\ chunk' = InitialChunk(s_in)
                /\ cursor_end' = EndDt
                /\ UNCHANGED <<s_meta, s_ret>>
          [] outcome = "refused" ->
                /\ ScanReturnEmpty("dvrip_login_failed")
                /\ UNCHANGED <<chunk, cursor_end>>
          [] outcome = "raise" ->
                /\ s_pc' = "raised"
                /\ UNCHANGED <<chunk, cursor_end, s_meta, s_ret>>
    /\ UNCHANGED <<s_in, collected, seen, meta_chunks, rows_len, dup_skipped>>
    /\ UNCHANGED scanOthers

\* while cursor_end > oldest_allowed and len(collected) < int(want)
ScanContinues ==
    cursor_end > OldestAllowed(s_in) /\ Len(collected) < s_in.want

\* meta["chunks"].append(...), keeping the trailing entries with this "end".
LogChunk(entry) ==
    IF meta_chunks # <<>> /\ meta_chunks[1].end = entry.end
    THEN Append(meta_chunks, entry)
    ELSE <<entry>>

\* Lines 119-155: one iteration of the loop: query, then shrink and retry, or
\* collect and move the cursor.
ScanIterate ==
    /\ s_pc = "loop"
    /\ ScanContinues
    /\ \/ \E reply \in ScanReplies(s_in) :
            LET begin_dt == BeginDt(cursor_end, chunk, s_in)
                norm == normalize_rows(reply.rows)
                raw == RawLen(reply)
                got == CollectFrom(norm, 1, collected, seen)
            IN  /\ meta_chunks' = LogChunk([begin |-> begin_dt, end |-> cursor_end,
                                            chunk_sec |-> chunk])
                /\ rows_len' = [raw |-> raw, parsed |-> Len(norm)]
                /\ IF raw >= s_in.cap_guard /\ chunk > MinChunk(s_in)
                   THEN /\ chunk' = ShrinkChunk(chunk, s_in)
                        /\ UNCHANGED <<cursor_end, collected, seen, dup_skipped>>
                   ELSE /\ collected' = got.collected
                        /\ seen' = got.seen
                        /\ dup_skipped' =
                             (dup_skipped \/ \E i \in 1..Len(norm) : RowKey(norm[i]) \in seen)
                        /\ cursor_end' = begin_dt
                        /\ chunk' = IF raw < GrowThreshold(s_in)
                                    THEN GrowChunk(chunk)
                                    ELSE chunk
                /\ UNCHANGED s_pc
       \/ /\ s_pc' = "raised"
          /\ UNCHANGED <<cursor_end, chunk, collected, seen, meta_chunks, rows_len,
                         dup_skipped>>
    /\ UNCHANGED <<s_in, s_meta, s_ret>>
    /\ UNCHANGED scanOthers

\* Lines 157-164: sort, fill meta and return the first want rows.
ScanFinish ==
    /\ s_pc = "loop"
    /\ ~ScanContinues
    /\ collected' = SortDesc(collected)
    /\ s_meta' = [ok |-> TRUE, reason |-> "ok"]
    /\ s_ret' = Take(collected', s_in.want)
    /\ s_pc' = "returned"
    /\ UNCHANGED <<s_in, cursor_end, chunk, seen, meta_chunks, rows_len, dup_skipped>>
    /\ UNCHANGED scanOthers

ScanNext ==
    \/ ScanStart
    \/ ScanLogin
    \/ ScanIterate
    \/ ScanFinish

(***************************************************************************)
(* alarm_poll_loop and the jobs it submits                                 *)
(***************************************************************************)
\* Poll cycles enumerated (the loop itself never ends).
MaxPolls == 3

\* Jobs the executor runs at the same time.
Workers == 2

\* Longest list the injected fetch_recent_alarm_markers returns in a cycle.
MaxPollReply == 2

\* The values of history_max that are tried; int(history_max) may be zero.
HistoryMaxValues == {0, 1, 2}

\* store_lock: nobody holds it, the poll loop holds it, job k holds it.
LockFree == [by |-> "nobody", job |-> 0]

PollHolder == [by |-> "poll", job |-> 0]

JobHolder(k) == [by |-> "job", job |-> k]

\* The lock is still held after the with block.
AfterWithKept(holder) == holder

\* Leaving a with store_lock block releases the lock.
AfterWith(holder) == LockFree

\* Rows fetch_recent_alarm_markers can return: two files, a second marker
\* of the first file with another begin time, and a row without file name.
\* BeginTime is in the fixed-width form "YYYY-mm-dd HH:MM:SS" of the camera's
\* file index.
PollRows ==
    { [FileName |-> "/idea1/a.jpg", BeginTime |-> "2024-01-01 10:00:05"],
      [FileName |-> "/idea1/b.jpg", BeginTime |-> "2024-01-01 10:00:09"],
      [FileName |-> "/idea1/a.jpg", BeginTime |-> "2024-01-01 10:00:09"],
      [FileName |-> "", BeginTime |-> "2024-01-01 10:00:05"] }

\* The lists the injected fetch_recent_alarm_markers returns: lists without
\* a repeated row, as src/alarm_index.py builds them (lines 146-151), and
\* lists that repeat one row, as a fetch function that does not deduplicate
\* may return.
PollReplies ==
    { rows \in UNION { [1..n -> PollRows] : n \in 0..MaxPollReply } :
        \/ \A i, j \in 1..Len(rows) : rows[i] = rows[j] => i = j
        \/ \A i, j \in 1..Len(rows) : rows[i] = rows[j] }

\* Position of a BeginTime text in the order of Python's str comparison.
TextRank(t) ==
    CASE t = "2024-01-01 10:00:05" -> 1
      [] t = "2024-01-01 10:00:09" -> 2
      [] t = "2024-01-01 10:0:5" -> 3
      [] OTHER -> 0

\* Insert r into a list sorted by str(BeginTime) ascending, after the rows
\* that do not sort after r (list.sort is stable).
RECURSIVE InsertByText(_, _)
InsertByText(sorted, r) ==
    IF sorted = <<>> THEN <<r>>
    ELSE IF TextRank(Head(sorted).BeginTime) <= TextRank(r.BeginTime)
         THEN <<Head(sorted)>> \o InsertByText(Tail(sorted), r)
         ELSE <<r>> \o sorted

\* The markers are left in the order the scanner returned them in.
SortByBeginTextSkipped(rows) == rows

\* new_markers.sort(key=lambda x: str(x.get("BeginTime", "")))
RECURSIVE SortByBeginText(_)
SortByBeginText(rows) ==
    IF rows = <<>> THEN <<>>
    ELSE InsertByText(SortByBeginText(SubSeq(rows, 1, Len(rows) - 1)), rows[Len(rows)])

KnownAddForgotten(known, fname) == known

\* store["known_files"].add(fname)
KnownAdd(known, fname) == known \cup {fname}

\* Lines 67-70: seed the known set with the file names of rows.
RECURSIVE SeedFrom(_, _, _)
SeedFrom(rows, i, known) ==
    IF i > Len(rows) THEN known
    ELSE IF rows[i].FileName # ""
         THEN SeedFrom(rows, i + 1, KnownAdd(known, rows[i].FileName))
         ELSE SeedFrom(rows, i + 1, known)

\* Lines 78-85: under the lock, pick the rows whose file name is not known
\* and insert each such name.
RECURSIVE SelectNew(_, _, _, _)
SelectNew(rows, i, known, new) ==
    IF i > Len(rows) THEN [known |-> known, new |-> new]
    ELSE LET fname == rows[i].FileName
         IN  IF fname = "" \/ fname \in known
             THEN SelectNew(rows, i + 1, known, new)
             ELSE SelectNew(rows, i + 1, KnownAdd(known, fname), Append(new, rows[i]))

\* Lines 95-104: the alarm record of a marker.
AlarmEntry(r) ==
    [time |-> r.BeginTime, file |-> r.FileName, size |-> 0, photo_file |-> "",
     source |-> "poll", updated |-> FALSE]

\* The record is put in front and nothing is cut off.
PrependUnbounded(entry, list, history_max) == <<entry>> \o list

\* ([alarm_entry] + store["alarms"])[: int(history_max)]
Prepend(entry, list, history_max) ==
    SubSeq(<<entry>> \o list, 1, Min2(history_max, Len(list) + 1))

\* The record at the front, where the job's record was when it was inserted,
\* is the one updated.
UpdateAtFront(list, i, file, jpeg) ==
    IF list = <<>> THEN list
    ELSE [list EXCEPT ![1] = [@ EXCEPT !.photo_file = jpeg,
                                       !.size = IF jpeg = "" THEN 0 ELSE 1,
                                       !.updated = TRUE]]

\* A job that got no JPEG removes its record.
UpdateFirstDropsFailed(list, i, file, jpeg) ==
    IF jpeg = "" THEN SelectSeq(list, LAMBDA a : a.file # file) ELSE list

\* Lines 140-145: update the first record whose file equals the entry's.
RECURSIVE UpdateFirst(_, _, _, _)
UpdateFirst(list, i, file, jpeg) ==
    IF i > Len(list) THEN list
    ELSE IF list[i].file = file
         THEN [list EXCEPT ![i] = [@ EXCEPT !.photo_file = jpeg,
                                            !.size = IF jpeg = "" THEN 0 ELSE 1,
                                            !.updated = TRUE]]
         ELSE UpdateFirst(list, i + 1, file, jpeg)

PollIdle ==
    /\ p_pc = "idle"
    /\ p_in = [history_max |-> 2]
    /\ seeded = FALSE
    /\ known_files = {}
    /\ alarms = <<>>
    /\ last_error = ""
    /\ p_rows = <<>>
    /\ new_markers = <<>>
    /\ p_i = 0
    /\ jobs = <<>>
    /\ sent = <<>>
    /\ polls = 0
    /\ store_lock = LockFree
    /\ last_check = 0
    /\ index0 = {}

\* The camera's file index when the loop starts: empty, or one marker
\* recorded before the start.
StartupIndexes ==
    { {}, {[FileName |-> "/idea1/a.jpg", BeginTime |-> "2024-01-01 10:00:05"]} }

\* What fetch_recent_alarm_markers returns without raising, for a camera
\* whose index held the markers of index at startup: the empty list when the
\* library is missing, the password is empty or the login is refused
\* (src/alarm_index.py lines 98-108), else the rows of the file query, the
\* markers recorded before the start among them.
FetchReplies(index) ==
    { rows \in PollReplies :
        \/ rows = <<>>
        \/ \A r \in index : \E i \in 1..Len(rows) : rows[i] = r }

\* The store as server.py creates it (lines 496-503): no alarms, no known
\* files.
PollInit ==
    /\ p_pc = "fetch"
    /\ p_in \in [history_max : HistoryMaxValues]
    /\ seeded = FALSE
    /\ known_files = {}
    /\ alarms = <<>>
    /\ last_error = ""
    /\ p_rows = <<>>
    /\ new_markers = <<>>
    /\ p_i = 0
    /\ jobs = <<>>
    /\ sent = <<>>
    /\ polls = 0
    /\ store_lock = LockFree
    /\ last_check = 0
    /\ index0 \in StartupIndexes

\* Lines 43-62: a cycle starts and fetch_recent_alarm_markers returns rows
\* or raises (lines 164-167).
PollFetch ==
    /\ p_pc = "fetch"
    /\ polls < MaxPolls
    /\ polls' = polls + 1
    /\ \/ \E rows \in FetchReplies(index0) :
            /\ p_rows' = rows
            /\ p_pc' = IF seeded THEN "select" ELSE "seed"
            /\ last_error' = ""
       \/ /\ last_error' = "error"
          /\ UNCHANGED <<p_rows, p_pc>>
    /\ UNCHANGED <<p_in, seeded, known_files, alarms, new_markers, p_i, jobs, sent,
                   store_lock, last_check>>
    /\ UNCHANGED <<index0, pollOthers>>

\* The end of a cycle (line 74 or 167): the locals rows, new_markers and the
\* position in the for loop are dead until the next cycle assigns them.
EndCycle ==
    /\ p_pc' = "fetch"
    /\ p_rows' = <<>>
    /\ new_markers' = <<>>
    /\ p_i' = 0

\* with store_lock: at lines 66, 77, 106 and 161; the loop waits until the
\* lock is free.
PollAcquire ==
    /\ p_pc \in {"seed", "select", "record"}
    /\ store_lock = LockFree
    /\ store_lock' = PollHolder
    /\ UNCHANGED <<p_pc, p_in, seeded, known_files, alarms, last_error, p_rows,
                   new_markers, p_i, jobs, sent, polls, last_check>>
    /\ UNCHANGED <<index0, pollOthers>>

\* Lines 64-74: the first successful fetch only seeds the known set.
PollSeed ==
    /\ p_pc = "seed"
    /\ store_lock = PollHolder
    /\ known_files' = SeedFrom(p_rows, 1, known_files)
    /\ last_check' = polls
    /\ store_lock' = AfterWith(store_lock)
    /\ seeded' = TRUE
    /\ EndCycle
    /\ UNCHANGED <<p_in, alarms, last_error, jobs, sent, polls>>
    /\ UNCHANGED <<index0, pollOthers>>

\* Lines 76-88: the critical section that checks and inserts the file
\* names, then the sort of the new markers.
PollSelect ==
    /\ p_pc = "select"
    /\ store_lock = PollHolder
    /\ LET sel == SelectNew(p_rows, 1, known_files, <<>>)
       IN  /\ known_files' = sel.known
           /\ new_markers' = SortByBeginText(sel.new)
    /\ store_lock' = AfterWith(store_lock)
    /\ p_i' = 1
    /\ p_pc' = "record"
    /\ UNCHANGED <<p_in, seeded, alarms, last_error, p_rows, jobs, sent, polls, last_check>>
    /\ UNCHANGED <<index0, pollOthers>>

\* Lines 90-109: the record of the next new marker is put in front of the
\* history; after the last marker, lines 161-162 write last_check and the
\* cycle ends.
PollRecord ==
    /\ p_pc = "record"
    /\ store_lock = PollHolder
    /\ IF p_i <= Len(new_markers)
       THEN /\ alarms' = Prepend(AlarmEntry(new_markers[p_i]), alarms, p_in.history_max)
            /\ p_pc' = "submit"
            /\ UNCHANGED <<last_check, p_rows, new_markers, p_i>>
       ELSE /\ last_check' = polls
            /\ EndCycle
            /\ UNCHANGED alarms
    /\ store_lock' = AfterWith(store_lock)
    /\ UNCHANGED <<p_in, seeded, known_files, last_error, jobs, sent, polls>>
    /\ UNCHANGED <<index0, pollOthers>>

\* The loop waits until every job submitted before has ended.
PollSubmitWaits ==
    /\ p_pc = "submit"
    /\ \A k \in 1..Len(jobs) : jobs[k].st \in {"done", "failed"}
    /\ jobs' = Append(jobs, [file |-> new_markers[p_i].FileName,
                             time |-> new_markers[p_i].BeginTime,
                             st |-> "queued", jpeg |-> ""])
    /\ p_i' = p_i + 1
    /\ p_pc' = "record"
    /\ UNCHANGED <<p_in, seeded, known_files, alarms, last_error, p_rows, new_markers,
                   sent, polls, store_lock, last_check>>
    /\ UNCHANGED <<index0, pollOthers>>

\* Line 159: executor.submit(job) queues the job and returns; if it raises,
\* lines 164-167 end the cycle.
PollSubmit ==
    /\ p_pc = "submit"
    /\ \/ /\ jobs' = Append(jobs, [file |-> new_markers[p_i].FileName,
                                   time |-> new_markers[p_i].BeginTime,
                                   st |-> "queued", jpeg |-> ""])
          /\ p_i' = p_i + 1
          /\ p_pc' = "record"
          /\ UNCHANGED <<last_error, p_rows, new_markers>>
       \/ /\ last_error' = "error"
          /\ EndCycle
          /\ UNCHANGED jobs
    /\ UNCHANGED <<p_in, seeded, known_files, alarms, sent, polls, store_lock, last_check>>
    /\ UNCHANGED <<index0, pollOthers>>

\* Jobs that hold a worker.
Running == {k \in 1..Len(jobs) : jobs[k].st \in {"extracted", "updated"}}

\* Lines 112-137 of a job: extract_alarm_photo_hybrid and save_alarm_photo;
\* an exception ends the job in the handler of lines 152-157.
JobExtract(k) ==
    /\ jobs[k].st = "queued"
    /\ \A m \in 1..(k - 1) : jobs[m].st # "queued"
    /\ Cardinality(Running) < Workers
    /\ \/ \E j \in {"", "jpegA"} :
            /\ jobs' = [jobs EXCEPT ![k] = [@ EXCEPT !.st = "extracted", !.jpeg = j]]
            /\ UNCHANGED last_error
       \/ /\ jobs' = [jobs EXCEPT ![k] = [@ EXCEPT !.st = "failed"]]
          /\ last_error' = "error"
    /\ UNCHANGED <<p_pc, p_in, seeded, known_files, alarms, p_rows, new_markers, p_i,
                   sent, polls, store_lock, last_check>>
    /\ UNCHANGED <<index0, pollOthers>>

\* Line 139 of a job: with store_lock; the job waits until the lock is free.
JobAcquire(k) ==
    /\ jobs[k].st = "extracted"
    /\ store_lock = LockFree
    /\ store_lock' = JobHolder(k)
    /\ UNCHANGED <<p_pc, p_in, seeded, known_files, alarms, last_error, p_rows,
                   new_markers, p_i, jobs, sent, polls, last_check>>
    /\ UNCHANGED <<index0, pollOthers>>

\* Lines 140-145 of a job: update the record under the lock.
JobUpdate(k) ==
    /\ jobs[k].st = "extracted"
    /\ store_lock = JobHolder(k)
    /\ alarms' = UpdateFirst(alarms, 1, jobs[k].file, jobs[k].jpeg)
    /\ jobs' = [jobs EXCEPT ![k] = [@ EXCEPT !.st = "updated"]]
    /\ store_lock' = AfterWith(store_lock)
    /\ UNCHANGED <<p_pc, p_in, seeded, known_files, last_error, p_rows, new_markers, p_i,
                   sent, polls, last_check>>
    /\ UNCHANGED <<index0, pollOthers>>

\* Lines 147-151 of a job: send_telegram; a notifier exception is caught in
\* lines 152-157.
JobNotify(k) ==
    /\ jobs[k].st = "updated"
    /\ sent' = Append(sent, [file |-> jobs[k].file, photo |-> jobs[k].jpeg])
    /\ \/ /\ jobs' = [jobs EXCEPT ![k] = [@ EXCEPT !.st = "done"]]
          /\ UNCHANGED last_error
       \/ /\ jobs' = [jobs EXCEPT ![k] = [@ EXCEPT !.st = "failed"]]
          /\ last_error' = "error"
    /\ UNCHANGED <<p_pc, p_in, seeded, known_files, alarms, p_rows, new_markers, p_i,
                   polls, store_lock, last_check>>
    /\ UNCHANGED <<index0, pollOthers>>

JobExtractStep == \E k \in 1..Len(jobs) : JobExtract(k)

JobAcquireStep == \E k \in 1..Len(jobs) : JobAcquire(k)

JobUpdateStep == \E k \in 1..Len(jobs) : JobUpdate(k)

JobNotifyStep == \E k \in 1..Len(jobs) : JobNotify(k)

PollNext ==
    \/ PollFetch
    \/ PollAcquire
    \/ PollSeed
    \/ PollSelect
    \/ PollRecord
    \/ PollSubmit
    \/ JobExtractStep
    \/ JobAcquireStep
    \/ JobUpdateStep
    \/ JobNotifyStep

(***************************************************************************)
(* server.py: alarm_history_poll_loop and the job of on_alarm_callback,    *)
(* two threads that share alarm_store                                      *)
(***************************************************************************)
ALARM_HISTORY_MAX == 200

\* Cycles of alarm_history_poll_loop enumerated (the loop itself never ends).
MaxHistPolls == 2

\* Longest list query_alarms returns in a cycle.
MaxHistReply == 2

\* Callback jobs enumerated.
MaxCallbacks == 2

\* File names of the camera's index.
SrvFiles == {"/idea1/a.jpg", "/idea1/b.jpg"}

\* query_alarms returns a list of index rows, each file once.
HistReplies ==
    { fs \in UNION { [1..n -> SrvFiles] : n \in 0..MaxHistReply } :
        \A i, j \in 1..Len(fs) : fs[i] = fs[j] => i = j }

\* alarm_entry["file"] of a callback job: photo_meta["file"], else a
\* sequence-number name.
CallbackFiles == SrvFiles \cup {"callback_seq1"}

SrvInit ==
    /\ srv_lock = "nobody"
    /\ srv_known_files = {}
    /\ srv_alarms = <<>>
    /\ srv_last_check = ""
    /\ hist_pc = "query"
    /\ hist_files = <<>>
    /\ hist_i = 0
    /\ hist_polls = 0
    /\ cb_pc = "idle"
    /\ cb_file = ""
    /\ cb_count = 0

\* Lines 953-967: a cycle logs in and queries the index; on a failure
\* (lines 960-962, 1001-1002) the cycle ends.
HistQuery ==
    /\ hist_pc = "query"
    /\ hist_polls < MaxHistPolls
    /\ hist_polls' = hist_polls + 1
    /\ \/ \E fs \in HistReplies :
            /\ hist_files' = fs
            /\ hist_i' = 1
            /\ hist_pc' = "check"
       \/ UNCHANGED <<hist_files, hist_i, hist_pc>>
    /\ UNCHANGED <<srv_lock, srv_known_files, srv_alarms, srv_last_check, cb_pc, cb_file,
                   cb_count>>
    /\ UNCHANGED srvOthers

\* Lines 969-972: the membership test of the next file, made without the
\* lock; after the last file the loop goes on to line 998.
HistCheck ==
    /\ hist_pc = "check"
    /\ IF hist_i > Len(hist_files)
       THEN /\ hist_pc' = "last_check"
            /\ UNCHANGED hist_i
       ELSE IF hist_files[hist_i] \in srv_known_files
       THEN /\ hist_i' = hist_i + 1
            /\ UNCHANGED hist_pc
       ELSE /\ hist_pc' = "add"
            /\ UNCHANGED hist_i
    /\ UNCHANGED <<srv_lock, srv_known_files, srv_alarms, srv_last_check, hist_files,
                   hist_polls, cb_pc, cb_file, cb_count>>
    /\ UNCHANGED srvOthers

\* Line 988: alarm_store["known_files"].add(fname), made without the lock.
HistAdd ==
    /\ hist_pc = "add"
    /\ srv_known_files' = KnownAdd(srv_known_files, hist_files[hist_i])
    /\ hist_pc' = "prepend"
    /\ UNCHANGED <<srv_lock, srv_alarms, srv_last_check, hist_files, hist_i, hist_polls,
                   cb_pc, cb_file, cb_count>>
    /\ UNCHANGED srvOthers

\* with alarm_store["lock"]: at lines 989 and 998.
HistAcquire ==
    /\ hist_pc \in {"prepend", "last_check"}
    /\ srv_lock = "nobody"
    /\ srv_lock' = "hist"
    /\ UNCHANGED <<srv_known_files, srv_alarms, srv_last_check, hist_pc, hist_files,
                   hist_i, hist_polls, cb_pc, cb_file, cb_count>>
    /\ UNCHANGED srvOthers

\* Lines 990-993: the record is put in front of the history under the lock.
HistPrepend ==
    /\ hist_pc = "prepend"
    /\ srv_lock = "hist"
    /\ srv_alarms' = Prepend([file |-> hist_files[hist_i], source |-> "history"],
                             srv_alarms, ALARM_HISTORY_MAX)
    /\ srv_lock' = "nobody"
    /\ hist_i' = hist_i + 1
    /\ hist_pc' = "check"
    /\ UNCHANGED <<srv_known_files, srv_last_check, hist_files, hist_polls, cb_pc,
                   cb_file, cb_count>>
    /\ UNCHANGED srvOthers

\* Lines 998-999: last_check is written under the lock and the cycle ends.
HistLastCheck ==
    /\ hist_pc = "last_check"
    /\ srv_lock = "hist"
    /\ srv_last_check' = "hist"
    /\ srv_lock' = "nobody"
    /\ hist_pc' = "query"
    /\ hist_files' = <<>>
    /\ hist_i' = 0
    /\ UNCHANGED <<srv_known_files, srv_alarms, hist_polls, cb_pc, cb_file, cb_count>>
    /\ UNCHANGED srvOthers

\* Lines 807-842 of the callback's job: the photo is extracted and saved and
\* the record is built.
CbStart ==
    /\ cb_pc = "idle"
    /\ cb_count < MaxCallbacks
    /\ cb_count' = cb_count + 1
    /\ \E f \in CallbackFiles : cb_file' = f
    /\ cb_pc' = "store"
    /\ UNCHANGED <<srv_lock, srv_known_files, srv_alarms, srv_last_check, hist_pc,
                   hist_files, hist_i, hist_polls>>
    /\ UNCHANGED srvOthers

\* Line 844: with alarm_store["lock"].
CbAcquire ==
    /\ cb_pc = "store"
    /\ srv_lock = "nobody"
    /\ srv_lock' = "cb"
    /\ UNCHANGED <<srv_known_files, srv_alarms, srv_last_check, hist_pc, hist_files,
                   hist_i, hist_polls, cb_pc, cb_file, cb_count>>
    /\ UNCHANGED srvOthers

\* Lines 845-850: under the lock the record is put in front of the history,
\* last_check is written and the file name is added to the known set.
CbStore ==
    /\ cb_pc = "store"
    /\ srv_lock = "cb"
    /\ srv_alarms' = Prepend([file |-> cb_file, source |-> "realtime"],
                             srv_alarms, ALARM_HISTORY_MAX)
    /\ srv_last_check' = "cb"
    /\ srv_known_files' = KnownAdd(srv_known_files, cb_file)
    /\ srv_lock' = "nobody"
    /\ cb_pc' = "notify"
    /\ UNCHANGED <<hist_pc, hist_files, hist_i, hist_polls, cb_file, cb_count>>
    /\ UNCHANGED srvOthers

\* Lines 852-856: the notification; the job thread ends.
CbNotify ==
    /\ cb_pc = "notify"
    /\ cb_pc' = "idle"
    /\ cb_file' = ""
    /\ UNCHANGED <<srv_lock, srv_known_files, srv_alarms, srv_last_check, hist_pc,
                   hist_files, hist_i, hist_polls, cb_count>>
    /\ UNCHANGED srvOthers

SrvNext ==
    \/ HistQuery
    \/ HistCheck
    \/ HistAdd
    \/ HistAcquire
    \/ HistPrepend
    \/ HistLastCheck
    \/ CbStart
    \/ CbAcquire
    \/ CbStore
    \/ CbNotify

(***************************************************************************)
(* alarm_photo_extractor.py: download_motion_file_h264                     *)
(***************************************************************************)
\* Longest packet stream enumerated.
MaxPackets == 3

\* Packets of the data socket, as _recv_new_packet reads them (lines 61-77):
\* the header's magic byte, its second flag byte b2, its message id and the
\* payload. A header with a wrong magic byte is rejected before its payload
\* is read.
DataPackets ==
    [magic : {255}, msgid : {1426, 1425}, b2 : {0, 1}, payload : {<<>>, <<1>>, <<2>>}]
        \cup {[magic |-> 0, msgid |-> 1426, b2 |-> 1, payload |-> <<>>]}

\* What the camera sends on the data socket before the connection ends.
DataStreams == UNION { [1..n -> DataPackets] : n \in 0..MaxPackets }

NoOutcome == [kind |-> "none", bytes |-> <<>>, error |-> ""]

Returned(b) == [kind |-> "bytes", bytes |-> b, error |-> ""]

Raised(e) == [kind |-> "error", bytes |-> <<>>, error |-> e]

FdIdle ==
    /\ f_pc = "idle"
    /\ f_stream = <<>>
    /\ ctl = "none"
    /\ data_sock = "none"
    /\ packets = 0
    /\ raw_1426 = <<>>
    /\ f_out = NoOutcome

FdInit ==
    /\ f_pc = "connect"
    /\ f_stream \in DataStreams
    /\ ctl = "none"
    /\ data_sock = "none"
    /\ packets = 0
    /\ raw_1426 = <<>>
    /\ f_out = NoOutcome

\* The finally block of lines 245-253 closes both sockets.
FinallySkipped(sock) == sock

Finally(sock) == "closed"

\* Lines 175-177: the control socket is created and connected; connect
\* raises when the camera is unreachable.
FdConnect ==
    /\ f_pc = "connect"
    /\ ctl' = "open"
    /\ \/ /\ f_pc' = "login"
          /\ UNCHANGED f_out
       \/ /\ f_pc' = "raised"
          /\ f_out' = Raised("connect failed")
    /\ UNCHANGED <<f_stream, data_sock, packets, raw_1426>>
    /\ UNCHANGED fdOthers

\* Lines 179-190: the login request and its reply. A reply that is not a
\* JSON object or whose Ret is neither 100 nor 515 closes the control socket
\* and raises (lines 187-189); a short read of the reply (_recvn, lines
\* 27-34), a timeout or a SessionID that is not hexadecimal raises where it
\* happens.
FdLogin ==
    /\ f_pc = "login"
    /\ \/ /\ f_pc' = "data_connect"
          /\ UNCHANGED <<ctl, f_out>>
       \/ /\ ctl' = "closed"
          /\ f_pc' = "raised"
          /\ f_out' = Raised("DVRIP login failed")
       \/ \E e \in {"socket closed", "timed out", "invalid SessionID"} :
            /\ f_pc' = "raised"
            /\ f_out' = Raised(e)
            /\ UNCHANGED ctl
    /\ UNCHANGED <<f_stream, data_sock, packets, raw_1426>>
    /\ UNCHANGED fdOthers

\* Lines 203-205: the data socket is created and connected, before the try
\* block is entered.
FdDataConnect ==
    /\ f_pc = "data_connect"
    /\ data_sock' = "open"
    /\ \/ /\ f_pc' = "start"
          /\ UNCHANGED f_out
       \/ /\ f_pc' = "raised"
          /\ f_out' = Raised("connect failed")
    /\ UNCHANGED <<f_stream, ctl, packets, raw_1426>>
    /\ UNCHANGED fdOthers

\* Lines 207-215: the data claim, the control start and its reply, inside
\* the try block; then the locals of the read loop.
FdStart ==
    /\ f_pc = "start"
    /\ \/ /\ f_pc' = "read"
          /\ raw_1426' = <<>>
          /\ packets' = 0
          /\ UNCHANGED <<ctl, data_sock, f_out>>
       \/ \E e \in {"socket closed", "timed out"} :
            /\ f_pc' = "raised"
            /\ f_out' = Raised(e)
            /\ ctl' = Finally(ctl)
            /\ data_sock' = Finally(data_sock)
            /\ UNCHANGED <<raw_1426, packets>>
    /\ UNCHANGED f_stream
    /\ UNCHANGED fdOthers

\* Lines 223-224: the payload of a packet is kept if its message id is 1426
\* and it is not empty.
ExtendAnyMsgid(raw, pkt) == raw \o pkt.payload

Extend(raw, pkt) ==
    IF pkt.msgid = 1426 /\ pkt.payload # <<>> THEN raw \o pkt.payload ELSE raw

\* Lines 225-226: the loop ends at a packet whose b2 is not zero.
Terminal(pkt) == pkt.b2 # 0

\* Lines 217-226 and 244-253: one turn of the read loop. The read raises
\* when the connection has ended (socket closed, lines 27-34) or the header
\* has a wrong magic byte (lines 64-65); a terminal packet ends the loop and
\* the call returns the bytes kept; the finally block runs on both ways out.
FdRead ==
    /\ f_pc = "read"
    /\ IF packets = Len(f_stream)
       THEN /\ f_pc' = "raised"
            /\ f_out' = Raised("socket closed")
            /\ ctl' = Finally(ctl)
            /\ data_sock' = Finally(data_sock)
            /\ UNCHANGED <<packets, raw_1426>>
       ELSE LET pkt == f_stream[packets + 1]
            IN  IF pkt.magic # 255
                THEN /\ f_pc' = "raised"
                     /\ f_out' = Raised("invalid DVRIP magic")
                     /\ ctl' = Finally(ctl)
                     /\ data_sock' = Finally(data_sock)
                     /\ UNCHANGED <<packets, raw_1426>>
                ELSE /\ packets' = packets + 1
                     /\ raw_1426' = Extend(raw_1426, pkt)
                     /\ IF Terminal(pkt)
                        THEN /\ f_pc' = "returned"
                             /\ f_out' = Returned(Extend(raw_1426, pkt))
                             /\ ctl' = Finally(ctl)
                             /\ data_sock' = Finally(data_sock)
                        ELSE /\ f_pc' = "read"
                             /\ UNCHANGED <<ctl, data_sock, f_out>>
    /\ UNCHANGED f_stream
    /\ UNCHANGED fdOthers

FdNext ==
    \/ FdConnect
    \/ FdLogin
    \/ FdDataConnect
    \/ FdStart
    \/ FdRead

(***************************************************************************)
(* alarm_hybrid_extractor.py: _pick_closest_file as a call of its own      *)
(***************************************************************************)
\* Longest row list enumerated for the picker.
MaxPickRows == 3

\* Index rows given to the picker: rows whose [begin, end] holds 10:00:10,
\* rows without an end time before and after it, a far row, two spellings
\* of one begin time, and a row whose begin time does not parse.
PickRows ==
    { [FileName |-> "/idea1/a.jpg", BeginTime |-> "2024-01-01 10:00:05", EndTime |-> ""],
      [FileName |-> "/idea1/a2.jpg", BeginTime |-> "2024-01-01 10:0:5",
       EndTime |-> "2024-01-01 10:00:12"],
      [FileName |-> "/idea1/b.jpg", BeginTime |-> "2024-01-01 10:00:09",
       EndTime |-> "2024-01-01 10:00:12"],
      [FileName |-> "/idea1/b2.jpg", BeginTime |-> "2024-01-01 10:00:09", EndTime |-> ""],
      [FileName |-> "/idea1/e.jpg", BeginTime |-> "2024-01-01 10:00:05",
       EndTime |-> "2024-01-01 10:00:12"],
      [FileName |-> "/idea1/d.jpg", BeginTime |-> "2024-01-01 10:05:00", EndTime |-> ""],
      [FileName |-> "/idea1/c.jpg", BeginTime |-> "garbage", EndTime |-> ""] }

\* Targets of the enumerated calls: 10:00:10 and 10:00:07.
PickTargets == {TargetDt, 36007}

PickIdle ==
    /\ k_pc = "idle"
    /\ k_in = [rows |-> <<>>, target |-> TargetDt]
    /\ k_ret = None

PickInit ==
    /\ k_pc = "start"
    /\ k_in \in [rows : UNION { [1..n -> PickRows] : n \in 0..MaxPickRows },
                 target : PickTargets]
    /\ k_ret = None

\* Lines 103-119: the call.
PickCall ==
    /\ k_pc = "start"
    /\ k_ret' = _pick_closest_file(k_in.rows, k_in.target)
    /\ k_pc' = "returned"
    /\ UNCHANGED k_in
    /\ UNCHANGED pickOthers

PickNext == PickCall

(***************************************************************************)
(* alarm_photo_extractor.py: extract_best_jpeg_from_motion_h264, the frame *)
(* choice of lines 289-335                                                 *)
(***************************************************************************)
\* Most frames a clip decodes to.
MaxFrames == 61

\* chosen_idx = None
NoIdx == -1

\* Frames by what the score functions measure (lines 134-149): the Laplacian
\* variance, the standard deviation of the gray image and the share of
\* low-saturation pixels in percent.
FrameKinds ==
    { [sharp |-> 90, cont |-> 0, gray |-> 0],
      [sharp |-> 150, cont |-> 0, gray |-> 0],
      [sharp |-> 90, cont |-> 12, gray |-> 0],
      [sharp |-> 150, cont |-> 12, gray |-> 100] }

\* Values of sample_frame_indexes.
SampleLists == { <<>>, <<0, 60>>, <<60, 10, 0>> }

\* target_set = set(sample_frame_indexes)
TargetSet(sample) == {sample[i] : i \in 1..Len(sample)}

\* max_idx = max(sample_frame_indexes) if sample_frame_indexes else 0
MaxIdx(sample) ==
    IF sample = <<>> THEN 0
    ELSE CHOOSE m \in TargetSet(sample) : \A x \in TargetSet(sample) : x <= m

\* Lines 306-312, in hundredths: (sharp + cont * 5.0) * max(0.0, 1.0 - gray_r)
\* in content mode, the sharpness otherwise.
Score(frame, mode) ==
    IF mode = "content"
    THEN (frame.sharp + frame.cont * 5) * Max2(0, 100 - frame.gray)
    ELSE frame.sharp * 100

\* A frame of equal score replaces the chosen one.
ImprovesOrEqual(score, chosen_score) == score >= chosen_score

\* Line 318: if score > chosen_score
Improves(score, chosen_score) == score > chosen_score

\* Lines 301-322: the loop from idx on; cap.read() fails at the first index
\* the clip has no frame for. chosen_score starts at -1.0.
RECURSIVE ChooseLoop(_, _, _, _)
ChooseLoop(in, idx, chosen_idx, chosen_score) ==
    IF idx > MaxIdx(in.sample) \/ idx >= in.decodable
    THEN chosen_idx
    ELSE IF idx \in TargetSet(in.sample)
              /\ Improves(Score(in.frames[idx], in.mode), chosen_score)
         THEN ChooseLoop(in, idx + 1, idx, Score(in.frames[idx], in.mode))
         ELSE ChooseLoop(in, idx + 1, chosen_idx, chosen_score)

ChooseIdle ==
    /\ c_pc = "idle"
    /\ c_in = [sample |-> <<>>, mode |-> "sharpness", decodable |-> 0, frames |-> <<>>]
    /\ c_ret = [ok |-> FALSE, reason |-> "", chosen_frame_index |-> NoIdx]

\* The clip was written and opened (lines 263-287): it decodes to decodable
\* frames; frames holds those the loop can score.
ChooseInit ==
    /\ c_pc = "opened"
    /\ \E sample \in SampleLists, mode \in {"sharpness", "content"},
          n \in 0..MaxFrames :
          \E fr \in [TargetSet(sample) -> FrameKinds] :
              c_in = [sample |-> sample, mode |-> mode, decodable |-> n, frames |-> fr]
    /\ c_ret = [ok |-> FALSE, reason |-> "", chosen_frame_index |-> NoIdx]

\* Lines 289-335: the choice and the result; cv2.imencode may fail.
ChooseCall ==
    /\ c_pc = "opened"
    /\ LET idx == ChooseLoop(c_in, 0, NoIdx, -100)
       IN  IF idx = NoIdx
           THEN c_ret' = [ok |-> FALSE, reason |-> "no_frames_decoded",
                          chosen_frame_index |-> NoIdx]
           ELSE \/ c_ret' = [ok |-> TRUE, reason |-> "ok", chosen_frame_index |-> idx]
                \/ c_ret' = [ok |-> FALSE, reason |-> "jpeg_encode_failed",
                             chosen_frame_index |-> idx]
    /\ c_pc' = "returned"
    /\ UNCHANGED c_in
    /\ UNCHANGED chooseOthers

ChooseNext == ChooseCall

(***************************************************************************)
(* alarm_photo_extractor.py: _extract_media_from_1426                      *)
(***************************************************************************)
\* Most blocks in an enumerated stream.
MaxBlocks == 3

\* The 4-byte block tags, as the bytes of the big-endian dword (line 96).
VideoTags == {<<0, 0, 1, 252>>, <<0, 0, 1, 254>>}

TagAudio == <<0, 0, 1, 253>>

AuxTags == {<<0, 0, 1, 250>>, <<0, 0, 1, 249>>}

JpegSignature == <<255, 216, 255, 224>>

\* An H.264 NAL unit start: start code and the first byte of a parameter set.
Nal == <<0, 0, 0, 1, 103>>

\* A video block: tag, the 12-byte header "BBBBII" whose last dword is the
\* payload length, and the payload.
VideoBlock(payload) ==
    <<0, 0, 1, 252>> \o <<0, 0, 0, 0, 0, 0, 0, 0, Len(payload), 0, 0, 0>> \o payload

\* An audio block: tag, 4-byte length, payload.
AudioBlock(payload) == TagAudio \o <<Len(payload), 0, 0, 0>> \o payload

\* An aux block: tag, the 4-byte header "BBH" whose last word is the length,
\* and the payload.
AuxBlock(payload) == <<0, 0, 1, 250>> \o <<0, 0, Len(payload), 0>> \o payload

\* The pieces a 1426 stream is made of here: blocks with a payload, a video
\* block of length zero, a JPEG signature and a stray byte between blocks.
StreamPieces ==
    { VideoBlock(Nal), AudioBlock(<<9>>), AuxBlock(<<8>>), VideoBlock(<<>>),
      JpegSignature, <<7>> }

RECURSIVE Flatten(_)
Flatten(pieces) ==
    IF pieces = <<>> THEN <<>> ELSE Head(pieces) \o Flatten(Tail(pieces))

TaggedStreams ==
    { Flatten(ps) : ps \in UNION { [1..n -> StreamPieces] : n \in 0..MaxBlocks } }

\* struct.unpack of an unsigned dword and word in the byte order of the
\* build (little-endian), at the 0-based offset c.
Dword(s, c) == s[c + 1] + 256 * s[c + 2] + 65536 * s[c + 3] + 16777216 * s[c + 4]

Word(s, c) == s[c + 1] + 256 * s[c + 2]

\* Lines 90-131: the loop from the 0-based cursor on. TakeFrom is the tail
\* of an iteration (lines 125-130), DemuxFrom the whole iteration.
RECURSIVE DemuxFrom(_, _, _, _)
RECURSIVE TakeFrom(_, _, _, _)
TakeFrom(s, cursor, remain, out) ==
    LET take == Min2(remain, Len(s) - cursor)
    IN  IF take <= 0 THEN out
        ELSE DemuxFrom(s, cursor + take, remain - take,
                       out \o SubSeq(s, cursor + 1, cursor + take))

DemuxFrom(s, cursor, remain, out) ==
    IF cursor >= Len(s) THEN out
    ELSE IF remain # 0 THEN TakeFrom(s, cursor, remain, out)
    ELSE IF cursor + 4 > Len(s) THEN out
    ELSE LET dtype == SubSeq(s, cursor + 1, cursor + 4)
             c == cursor + 4
         IN  IF dtype \in VideoTags
             THEN IF c + 12 > Len(s) THEN out
                  ELSE TakeFrom(s, c + 12, Dword(s, c + 8), out)
             ELSE IF dtype = TagAudio
             THEN IF c + 4 > Len(s) THEN out
                  ELSE TakeFrom(s, c + 4, Dword(s, c), out)
             ELSE IF dtype \in AuxTags
             THEN IF c + 4 > Len(s) THEN out
                  ELSE TakeFrom(s, c + 4, Word(s, c + 2), out)
             ELSE IF dtype = JpegSignature
             THEN DemuxFrom(s, c, 0, out \o JpegSignature)
             ELSE DemuxFrom(s, c - 3, 0, out)

_extract_media_from_1426(stream_1426) == DemuxFrom(stream_1426, 0, 0, <<>>)

DemuxIdle ==
    /\ x_pc = "idle"
    /\ x_in = <<>>
    /\ x_once = <<>>
    /\ x_twice = <<>>

DemuxInit ==
    /\ x_pc = "start"
    /\ x_in \in TaggedStreams
    /\ x_once = <<>>
    /\ x_twice = <<>>

\* The demuxer is applied to the stream.
DemuxFirst ==
    /\ x_pc = "start"
    /\ x_once' = _extract_media_from_1426(x_in)
    /\ x_pc' = "once"
    /\ UNCHANGED <<x_in, x_twice>>
    /\ UNCHANGED demuxOthers

\* The demuxer is applied to its own output.
DemuxSecond ==
    /\ x_pc = "once"
    /\ x_twice' = _extract_media_from_1426(x_once)
    /\ x_pc' = "twice"
    /\ UNCHANGED <<x_in, x_once>>
    /\ UNCHANGED demuxOthers

DemuxNext ==
    \/ DemuxFirst
    \/ DemuxSecond

(***************************************************************************)
(* alarm_photo_extractor.py: extract_best_jpeg_from_motion_h264 calls that *)
(* run on the workers of one pool at the same time, without debug_dir      *)
(***************************************************************************)
\* Milliseconds that pass while the calls run.
MaxClock == 2

\* The calls, one per worker; call w downloaded payload w.
Calls == 1..Workers

\* No file at a path, no media decoded.
NoCall == 0

ExtIdle ==
    /\ e_pc = [w \in Calls |-> "idle"]
    /\ e_path = [w \in Calls |-> 0]
    /\ e_src = [w \in Calls |-> NoCall]
    /\ files = [t \in 0..MaxClock |-> NoCall]
    /\ clock = 0

ExtInit ==
    /\ e_pc = [w \in Calls |-> "start"]
    /\ e_path = [w \in Calls |-> 0]
    /\ e_src = [w \in Calls |-> NoCall]
    /\ files = [t \in 0..MaxClock |-> NoCall]
    /\ clock = 0

\* A millisecond passes.
ExtTick ==
    /\ clock < MaxClock
    /\ \E w \in Calls : e_pc[w] # "done"
    /\ clock' = clock + 1
    /\ UNCHANGED <<e_pc, e_path, e_src, files>>
    /\ UNCHANGED extOthers

\* Line 277: tmp_name = f"alarm_media_{int(time.time() * 1000)}.h264"
TmpName(w, now) == now

\* Lines 275-280: the media is written to the temp file; open(..., "wb")
\* replaces what the path held.
ExtWrite(w) ==
    /\ e_pc[w] = "start"
    /\ e_path' = [e_path EXCEPT ![w] = TmpName(w, clock)]
    /\ files' = [files EXCEPT ![TmpName(w, clock)] = w]
    /\ e_pc' = [e_pc EXCEPT ![w] = "written"]
    /\ UNCHANGED <<e_src, clock>>
    /\ UNCHANGED extOthers

\* Lines 282-287: cv2.VideoCapture opens what the path holds now; a missing
\* file is opencv_failed_to_open_h264.
ExtOpen(w) ==
    /\ e_pc[w] = "written"
    /\ e_src' = [e_src EXCEPT ![w] = files[e_path[w]]]
    /\ e_pc' = [e_pc EXCEPT ![w] = IF files[e_path[w]] = NoCall THEN "failed" ELSE "opened"]
    /\ UNCHANGED <<e_path, files, clock>>
    /\ UNCHANGED extOthers

\* Lines 289-335: the frames are decoded and the result is built.
ExtDecode(w) ==
    /\ e_pc[w] = "opened"
    /\ e_pc' = [e_pc EXCEPT ![w] = "decoded"]
    /\ UNCHANGED <<e_path, e_src, files, clock>>
    /\ UNCHANGED extOthers

\* Lines 336-341: finally os.remove(media_path), errors ignored.
ExtRemove(w) ==
    /\ e_pc[w] \in {"decoded", "failed"}
    /\ files' = [files EXCEPT ![e_path[w]] = NoCall]
    /\ e_pc' = [e_pc EXCEPT ![w] = "done"]
    /\ UNCHANGED <<e_path, e_src, clock>>
    /\ UNCHANGED extOthers

ExtWriteStep == \E w \in Calls : ExtWrite(w)

ExtOpenStep == \E w \in Calls : ExtOpen(w)

ExtDecodeStep == \E w \in Calls : ExtDecode(w)

ExtRemoveStep == \E w \in Calls : ExtRemove(w)

ExtNext ==
    \/ ExtTick
    \/ ExtWriteStep
    \/ ExtOpenStep
    \/ ExtDecodeStep
    \/ ExtRemoveStep

(***************************************************************************)
(* The time range of the download commands: _download_with_retries as      *)
(* extract_alarm_photo_hybrid calls it, and the direct call of             *)
(* download_motion_file_h264 in server.py: extract_alarm_photo_from_motion *)
(***************************************************************************)
\* Passes of the for loop of extract_alarm_photo_from_motion.
ServerAttempts == 5

\* Index rows a caller can have chosen: the begin time parses (both pickers
\* skip the rows whose begin time does not), the end time is missing, equal
\* to the begin time or later.
ReqRows ==
    [BeginTime : {"2024-01-01 10:00:05", "2024-01-01 10:0:5", "2024-01-01 10:00:09"},
     EndTime : {"", "2024-01-01 10:00:05", "2024-01-01 10:00:09", "2024-01-01 10:00:12"}]

\* strftime("%Y-%m-%d %H:%M:%S") of the times one second after a begin time.
FormatDt(n) ==
    CASE n = 36006 -> "2024-01-01 10:00:06"
      [] n = 36010 -> "2024-01-01 10:00:10"
      [] OTHER -> "unformatted"

\* Lines 135-143 of _download_with_retries: an end time that is empty or
\* textually equal to the begin time becomes begin + 1 s, or the begin time
\* itself if that does not parse.
NormalizedEnd(bt, et) ==
    IF bt # "" /\ (et = "" \/ et = bt)
    THEN IF _parse_dt(bt) # NoneDt THEN FormatDt(_parse_dt(bt) + 1) ELSE bt
    ELSE et

\* et = str(picked.get("EndTime", "")) or bt
HybridEnd(row) == IF row.EndTime = "" THEN row.BeginTime ELSE row.EndTime

ReqIdle ==
    /\ r_pc = "idle"
    /\ r_in = [caller |-> "hybrid", retries |-> 0,
               row |-> [BeginTime |-> "2024-01-01 10:00:05", EndTime |-> ""]]
    /\ r_req = <<>>

ReqInit ==
    /\ r_pc = "run"
    /\ r_in \in [caller : {"hybrid", "server"}, retries : RetryValues, row : ReqRows]
    /\ r_req = <<>>

\* One attempt of _download_with_retries for the row extract_alarm_photo_hybrid
\* picked (lines 229-249 and 320-340, 135-166): the command is issued; it
\* returns the payload, or it raises and the loop goes on or re-raises.
ReqHybridAttempt ==
    /\ r_pc = "run"
    /\ r_in.caller = "hybrid"
    /\ r_req' = Append(r_req, [begin |-> r_in.row.BeginTime,
                               end |-> NormalizedEnd(r_in.row.BeginTime,
                                                     HybridEnd(r_in.row))])
    /\ \/ r_pc' = "returned"
       \/ r_pc' = IF Len(r_req) + 1 < Tries(r_in.retries) THEN "run" ELSE "raised"
    /\ UNCHANGED r_in
    /\ UNCHANGED reqOthers

\* One pass of the loop of extract_alarm_photo_from_motion in which a file
\* was found (server.py lines 672-719): the command is issued with the row's
\* own times; it returns, or it raises and the next pass runs.
ReqServerAttempt ==
    /\ r_pc = "run"
    /\ r_in.caller = "server"
    /\ r_req' = Append(r_req, [begin |-> r_in.row.BeginTime, end |-> r_in.row.EndTime])
    /\ \/ r_pc' = "returned"
       \/ r_pc' = IF Len(r_req) + 1 < ServerAttempts THEN "run" ELSE "returned"
    /\ UNCHANGED r_in
    /\ UNCHANGED reqOthers

ReqNext ==
    \/ ReqHybridAttempt
    \/ ReqServerAttempt

(***************************************************************************)
(* alarm_photo_extractor.py: the while loop of _extract_media_from_1426,   *)
(* one iteration per step                                                  *)
(***************************************************************************)
\* The inputs of the loop are the streams of blocks and every truncation of
\* them (a download can end anywhere); y_pieces remembers the pieces the
\* input was cut from.
PieceLists == UNION { [1..n -> StreamPieces] : n \in 0..MaxBlocks }

\* The iteration with a JPEG signature that is emitted and then stepped
\* back over like an unknown tag.
DemuxIterRescan(s, cursor, remain, out) ==
    LET left(c, r) == [cursor |-> c, remain |-> r, out |-> out, done |-> TRUE]
        take(c, r) ==
            LET n == Min2(r, Len(s) - c)
            IN  IF n <= 0 THEN left(c, r)
                ELSE [cursor |-> c + n, remain |-> r - n,
                      out |-> out \o SubSeq(s, c + 1, c + n), done |-> FALSE]
        dtype == SubSeq(s, cursor + 1, cursor + 4)
        c4 == cursor + 4
    IN  IF cursor >= Len(s) THEN left(cursor, remain)
        ELSE IF remain # 0 THEN take(cursor, remain)
        ELSE IF c4 > Len(s) THEN left(cursor, remain)
        ELSE IF dtype \in VideoTags
             THEN IF c4 + 12 > Len(s) THEN left(c4, remain)
                  ELSE take(c4 + 12, Dword(s, c4 + 8))
        ELSE IF dtype = TagAudio
             THEN IF c4 + 4 > Len(s) THEN left(c4, remain)
                  ELSE take(c4 + 4, Dword(s, c4))
        ELSE IF dtype \in AuxTags
             THEN IF c4 + 4 > Len(s) THEN left(c4, remain)
                  ELSE take(c4 + 4, Word(s, c4 + 2))
        ELSE IF dtype = JpegSignature
             THEN [cursor |-> c4 - 3, remain |-> 0, out |-> out \o JpegSignature,
                   done |-> FALSE]
        ELSE [cursor |-> c4 - 3, remain |-> 0, out |-> out, done |-> FALSE]

\* Lines 92-130: one iteration of the loop from the state (cursor, remain,
\* out): the next state, and whether the loop was left (the while condition
\* is false, or a break was taken).
DemuxIter(s, cursor, remain, out) ==
    LET left(c, r) == [cursor |-> c, remain |-> r, out |-> out, done |-> TRUE]
        take(c, r) ==
            LET n == Min2(r, Len(s) - c)
            IN  IF n <= 0 THEN left(c, r)
                ELSE [cursor |-> c + n, remain |-> r - n,
                      out |-> out \o SubSeq(s, c + 1, c + n), done |-> FALSE]
        dtype == SubSeq(s, cursor + 1, cursor + 4)
        c4 == cursor + 4
    IN  IF cursor >= Len(s) THEN left(cursor, remain)
        ELSE IF remain # 0 THEN take(cursor, remain)
        ELSE IF c4 > Len(s) THEN left(cursor, remain)
        ELSE IF dtype \in VideoTags
             THEN IF c4 + 12 > Len(s) THEN left(c4, remain)
                  ELSE take(c4 + 12, Dword(s, c4 + 8))
        ELSE IF dtype = TagAudio
             THEN IF c4 + 4 > Len(s) THEN left(c4, remain)
                  ELSE take(c4 + 4, Dword(s, c4))
        ELSE IF dtype \in AuxTags
             THEN IF c4 + 4 > Len(s) THEN left(c4, remain)
                  ELSE take(c4 + 4, Word(s, c4 + 2))
        ELSE IF dtype = JpegSignature
             THEN [cursor |-> c4, remain |-> 0, out |-> out \o JpegSignature,
                   done |-> FALSE]
        ELSE [cursor |-> c4 - 3, remain |-> 0, out |-> out, done |-> FALSE]

LoopIdle ==
    /\ y_pc = "idle"
    /\ y_pieces = <<>>
    /\ y_in = <<>>
    /\ y_cursor = 0
    /\ y_remain = 0
    /\ y_out = <<>>

\* Lines 89-91: cursor = 0, remain = 0, out = bytearray().
LoopInit ==
    /\ y_pc = "loop"
    /\ y_pieces \in PieceLists
    /\ y_in \in { SubSeq(Flatten(y_pieces), 1, n) : n \in 0..Len(Flatten(y_pieces)) }
    /\ y_cursor = 0
    /\ y_remain = 0
    /\ y_out = <<>>

LoopIterate ==
    /\ y_pc = "loop"
    /\ LET n == DemuxIter(y_in, y_cursor, y_remain, y_out)
       IN  /\ y_cursor' = n.cursor
           /\ y_remain' = n.remain
           /\ y_out' = n.out
           /\ y_pc' = IF n.done THEN "done" ELSE "loop"
    /\ UNCHANGED <<y_in, y_pieces>>
    /\ UNCHANGED loopOthers

DemuxLoopNext == LoopIterate

(***************************************************************************)
(* Specifications.                                                         *)
(***************************************************************************)
vars == <<hybVars, scanVars, pollVars, dlVars, srvVars, fdVars, pickVars, chooseVars, demuxVars, extVars, reqVars, loopVars>>

\* The component is not running (under the other specifications).
HybIdle ==
    /\ h_pc = "idle"
    /\ h_in = [HAS_DVRIP |-> TRUE, password |-> "secret", download_retries |-> 2,
               bottom_white_threshold |-> 25]
    /\ meta = [ok |-> FALSE, reason |-> "init", chosen |-> "", idea1 |-> None, motion |-> None]
    /\ idea1_meta = EmptyTierMeta
    /\ motion_meta = EmptyTierMeta
    /\ idea1_jpeg = ""
    /\ motion_jpeg = ""
    /\ h_picked = None
    /\ h_attempt = 0
    /\ h_raw = ""
    /\ h_ret = ""
    /\ h_net = <<>>

DlIdle ==
    /\ d_pc = "idle"
    /\ d_in = [retries |-> 2]
    /\ d_attempt = 1
    /\ last_err = ""
    /\ d_log = <<>>
    /\ d_sleeps = 0
    /\ d_out = ""

SrvIdle ==
    /\ srv_lock = "nobody"
    /\ srv_known_files = {}
    /\ srv_alarms = <<>>
    /\ srv_last_check = ""
    /\ hist_pc = "idle"
    /\ hist_files = <<>>
    /\ hist_i = 0
    /\ hist_polls = 0
    /\ cb_pc = "off"
    /\ cb_file = ""
    /\ cb_count = 0

InitHybrid == HybInit /\ ScanIdle /\ PollIdle /\ DlIdle /\ SrvIdle /\ FdIdle /\ PickIdle /\ ChooseIdle /\ DemuxIdle /\ ExtIdle /\ ReqIdle /\ LoopIdle

SpecHybrid == InitHybrid /\ [][HybNext]_vars

InitScan == ScanInit /\ HybIdle /\ PollIdle /\ DlIdle /\ SrvIdle /\ FdIdle /\ PickIdle /\ ChooseIdle /\ DemuxIdle /\ ExtIdle /\ ReqIdle /\ LoopIdle

SpecScan == InitScan /\ [][ScanNext]_vars

\* The scan runs in one thread that is not held up for ever: every query is
\* answered or raises.
SpecScanFair == InitScan /\ [][ScanNext]_vars /\ WF_vars(ScanNext)

InitPoll == PollInit /\ HybIdle /\ ScanIdle /\ DlIdle /\ SrvIdle /\ FdIdle /\ PickIdle /\ ChooseIdle /\ DemuxIdle /\ ExtIdle /\ ReqIdle /\ LoopIdle

SpecPoll == InitPoll /\ [][PollNext]_vars

\* A step of the poll loop's thread.
LoopNext ==
    \/ PollFetch
    \/ PollAcquire
    \/ PollSeed
    \/ PollSelect
    \/ PollRecord
    \/ PollSubmit

\* The poll loop's thread is scheduled again and again, and a job inside its
\* critical section (which holds no blocking call) leaves it. Nothing is
\* assumed about the rest of a job: the extraction, the wait for the lock
\* and the notification may each take for ever.
\* The length of the history plays no part in the scheduling: the fair
\* behaviours are enumerated for one value of history_max.
InitPollFair == InitPoll /\ p_in.history_max = 2

SpecPollFair ==
    /\ InitPollFair
    /\ [][PollNext]_vars
    /\ WF_vars(LoopNext)
    /\ WF_vars(JobUpdateStep)

InitDownload == DlInit /\ HybIdle /\ ScanIdle /\ PollIdle /\ SrvIdle /\ FdIdle /\ PickIdle /\ ChooseIdle /\ DemuxIdle /\ ExtIdle /\ ReqIdle /\ LoopIdle

SpecDownload == InitDownload /\ [][DlNext]_vars

InitServer == SrvInit /\ HybIdle /\ ScanIdle /\ PollIdle /\ DlIdle /\ FdIdle /\ PickIdle /\ ChooseIdle /\ DemuxIdle /\ ExtIdle /\ ReqIdle /\ LoopIdle

SpecServer == InitServer /\ [][SrvNext]_vars

InitFileDownload == FdInit /\ ScanIdle /\ PollIdle /\ HybIdle /\ DlIdle /\ SrvIdle /\ PickIdle /\ ChooseIdle /\ DemuxIdle /\ ExtIdle /\ ReqIdle /\ LoopIdle

SpecFileDownload == InitFileDownload /\ [][FdNext]_vars

InitPick == PickInit /\ ScanIdle /\ PollIdle /\ FdIdle /\ HybIdle /\ DlIdle /\ SrvIdle /\ ChooseIdle /\ DemuxIdle /\ ExtIdle /\ ReqIdle /\ LoopIdle

SpecPick == InitPick /\ [][PickNext]_vars

InitChoose == ChooseInit /\ ScanIdle /\ PollIdle /\ FdIdle /\ PickIdle /\ HybIdle /\ DlIdle /\ SrvIdle /\ DemuxIdle /\ ExtIdle /\ ReqIdle /\ LoopIdle

SpecChoose == InitChoose /\ [][ChooseNext]_vars

InitDemux == DemuxInit /\ ScanIdle /\ PollIdle /\ FdIdle /\ PickIdle /\ ChooseIdle /\ HybIdle /\ DlIdle /\ SrvIdle /\ ExtIdle /\ ReqIdle /\ LoopIdle

SpecDemux == InitDemux /\ [][DemuxNext]_vars

InitExtract == ExtInit /\ ScanIdle /\ PollIdle /\ FdIdle /\ PickIdle /\ ChooseIdle /\ DemuxIdle /\ HybIdle /\ DlIdle /\ SrvIdle /\ ReqIdle /\ LoopIdle

SpecExtract == InitExtract /\ [][ExtNext]_vars

InitRequest == ReqInit /\ ScanIdle /\ PollIdle /\ FdIdle /\ PickIdle /\ ChooseIdle /\ DemuxIdle /\ ExtIdle /\ HybIdle /\ DlIdle /\ SrvIdle /\ LoopIdle

SpecRequest == InitRequest /\ [][ReqNext]_vars

InitLoop == LoopInit /\ ScanIdle /\ PollIdle /\ FdIdle /\ PickIdle /\ ChooseIdle /\ DemuxIdle /\ ExtIdle /\ ReqIdle /\ HybIdle /\ DlIdle /\ SrvIdle

SpecLoop == InitLoop /\ [][DemuxLoopNext]_vars

(***************************************************************************)
(* Properties of extract_alarm_photo_hybrid (checked under SpecHybrid).    *)
(***************************************************************************)
\* The operation op was issued to the camera during this call.
InNet(op) == \E i \in 1..Len(h_net) : h_net[i] = op

MotionStarted == InNet("motion.login") \/ InNet("motion.query") \/ InNet("motion.download")

\* C1: once the photo-marker tier has decoded a frame whose bottom-white
\* ratio is below bottom_white_threshold, the call can only return that frame
\* with ok = true, reason "ok", chosen "idea1"; the motion tier is never
\* started (no motion login, query or download) and meta.motion stays None.
C1_AcceptedIdea1SkipsMotion ==
    (/\ idea1_jpeg # ""
     /\ idea1_meta.bottom_white_ratio # NoBw
     /\ idea1_meta.bottom_white_ratio < h_in.bottom_white_threshold)
    => /\ h_pc \in {"decide", "returned"}
       /\ ~MotionStarted
       /\ meta.motion = None
       /\ motion_jpeg = ""
       /\ h_pc = "returned" =>
            /\ h_ret = idea1_jpeg
            /\ meta.ok
            /\ meta.reason = "ok"
            /\ meta.chosen = "idea1"

C1_Witness ==
    /\ h_pc = "returned"
    /\ idea1_jpeg = "jpegA"
    /\ idea1_meta.bottom_white_ratio = 10
    /\ h_in.bottom_white_threshold = 25
    /\ h_ret = "jpegA"

\* C2: when the motion tier decoded a frame, the call returns the motion
\* frame with ok = true, reason "ok_fallback_motion", chosen "motion",
\* whatever the motion frame's bottom-white ratio and whether or not a
\* photo-marker frame is available.
C2_MotionFrameReturned ==
    (h_pc = "returned" /\ motion_jpeg # "")
    => /\ h_ret = motion_jpeg
       /\ meta.ok
       /\ meta.reason = "ok_fallback_motion"
       /\ meta.chosen = "motion"

C2_Witness ==
    /\ h_pc = "returned"
    /\ motion_jpeg = "jpegB"
    /\ idea1_jpeg = "jpegA"
    /\ motion_meta.bottom_white_ratio = 40
    /\ h_in.bottom_white_threshold = 25
    /\ h_ret = "jpegB"

\* C3: when the photo-marker frame was not accepted and the motion tier
\* produced no frame, the call returns the photo-marker frame with ok = true,
\* reason "ok_but_bottom_white", chosen "idea1".
C3_LastResortIdea1 ==
    (/\ h_pc = "returned"
     /\ idea1_jpeg # ""
     /\ ~(/\ idea1_meta.bottom_white_ratio # NoBw
          /\ idea1_meta.bottom_white_ratio < h_in.bottom_white_threshold)
     /\ motion_jpeg = "")
    => /\ h_ret = idea1_jpeg
       /\ meta.ok
       /\ meta.reason = "ok_but_bottom_white"
       /\ meta.chosen = "idea1"

\* Ratio 0.40 against threshold 0.25, and the motion query found no clip.
C3_Witness ==
    /\ h_pc = "returned"
    /\ idea1_jpeg = "jpegA"
    /\ idea1_meta.bottom_white_ratio = 40
    /\ h_in.bottom_white_threshold = 25
    /\ motion_meta.count = 0
    /\ motion_jpeg = ""
    /\ meta.reason = "ok_but_bottom_white"

\* C4: the call returns no JPEG only if neither tier decoded a frame, and
\* whenever a tier decoded a frame it returns ok = true with JPEG bytes.
C4_FailureOnlyWithoutFrames ==
    h_pc = "returned"
    => /\ (h_ret = "" \/ ~meta.ok) => (idea1_jpeg = "" /\ motion_jpeg = "")
       /\ (idea1_jpeg # "" \/ motion_jpeg # "") => (meta.ok /\ h_ret # "")

C4_Witness ==
    /\ h_pc = "returned"
    /\ idea1_jpeg = ""
    /\ idea1_meta.extract = "failed"
    /\ motion_jpeg # ""
    /\ meta.ok
    /\ h_ret = motion_jpeg

\* The photo-marker tier was entered and the call ended without accepting
\* its frame.
Idea1EndedUnaccepted ==
    /\ h_pc = "returned"
    /\ InNet("idea1.login")
    /\ meta.reason # "ok"

\* C5 as stated: whenever the photo-marker tier ends without an accepted
\* frame, for any reason including a login failure, the motion tier has been
\* attempted before the extraction ends.
C5_Original == Idea1EndedUnaccepted => InNet("motion.login")

\* C5 amended: whenever the photo-marker tier ends without an accepted frame
\* for any reason other than its login being refused (reason
\* "dvrip_login_failed"), the motion tier has been attempted before the
\* extraction ends; a refused login ends the call without the motion tier.
C5_MotionTriedUnlessLoginRefused ==
    /\ (Idea1EndedUnaccepted /\ meta.reason # "dvrip_login_failed") => InNet("motion.login")
    /\ (h_pc = "returned" /\ meta.reason = "dvrip_login_failed") =>
            (~MotionStarted /\ h_net = <<"idea1.login">> /\ h_ret = "")

C5_Witness ==
    /\ h_pc = "returned"
    /\ idea1_meta.error = "error"
    /\ InNet("idea1.download")
    /\ InNet("motion.login")

(***************************************************************************)
(* Properties of fetch_recent_alarm_markers (checked under SpecScan).      *)
(***************************************************************************)
\* Width of the window [begin_dt, cursor_end] that a query made in this
\* state covers.
QueriedWidth == cursor_end - BeginDt(cursor_end, chunk, s_in)

\* A loop iteration whose query returned at least cap_guard rows while the
\* window width was above the minimum.
SaturatedAboveMin ==
    /\ s_pc = "loop"
    /\ s_pc' = "loop"
    /\ rows_len'.raw >= s_in.cap_guard
    /\ chunk > MinChunk(s_in)

\* C7 as stated: after a query that returns at least cap_guard rows while
\* the window is above the minimum width, the rows are not collected, the
\* cursor end stays, and the next query covers a strictly smaller window.
C7_Original ==
    [][SaturatedAboveMin =>
        /\ cursor_end' = cursor_end
        /\ collected' = collected
        /\ QueriedWidth' < QueriedWidth]_vars

\* C8: the returned list never holds two rows with the same
\* (FileName, BeginTime) pair, whatever rows the camera repeated.
C8_NoDuplicatePairs ==
    s_pc = "returned" =>
        \A i, j \in 1..Len(s_ret) :
            i # j => <<s_ret[i].FileName, s_ret[i].BeginTime>>
                     # <<s_ret[j].FileName, s_ret[j].BeginTime>>

C8_Witness ==
    /\ s_pc = "returned"
    /\ dup_skipped
    /\ Len(s_ret) = 2
    /\ rows_len.parsed = 2

\* The setting of C9: cap_guard 60, a 10-minute initial window, a 60-second
\* minimum and a camera whose every reply saturates.
C9_Setting ==
    /\ s_in.cap_guard = 60
    /\ s_in.initial_chunk_minutes = 10
    /\ s_in.min_chunk_seconds = 60
    /\ s_in.camera = "saturating"

C9_Widths == <<600, 300, 150, 75, 60>>

\* C9: in that setting the widths queried at the first cursor end are 600,
\* 300, 150, 75 and 60 seconds, in this order; the width never goes below
\* 60; and at any cursor end the cursor moves back only after the query of
\* width 60, to that query's begin.
C9_HalvingToMinimum ==
    C9_Setting =>
        /\ s_pc = "loop" => chunk >= 60
        /\ (meta_chunks # <<>> /\ meta_chunks[1].end = EndDt) =>
              /\ Len(meta_chunks) <= 5
              /\ \A i \in 1..Len(meta_chunks) :
                    /\ meta_chunks[i].chunk_sec = C9_Widths[i]
                    /\ meta_chunks[i].end = EndDt
                    /\ meta_chunks[i].begin = EndDt - C9_Widths[i]
              /\ cursor_end \in {EndDt, EndDt - 60}
              /\ cursor_end = EndDt - 60 => Len(meta_chunks) = 5
        /\ (meta_chunks # <<>> /\ cursor_end # meta_chunks[1].end) =>
              /\ meta_chunks[Len(meta_chunks)].chunk_sec = 60
              /\ cursor_end = meta_chunks[Len(meta_chunks)].begin

C9_Witness ==
    /\ C9_Setting
    /\ Len(meta_chunks) = 5
    /\ \A i \in 1..5 : meta_chunks[i].chunk_sec = C9_Widths[i] /\ meta_chunks[i].end = EndDt
    /\ rows_len.raw >= 60
    /\ cursor_end = EndDt - 60

\* C10: the returned rows are sorted by begin time, newest first, and number
\* at most want; they are rows of collected, and every collected row that is
\* not returned is at least as old as every returned row.
C10_NewestFirstAtMostWant ==
    s_pc = "returned" =>
        /\ Len(s_ret) <= s_in.want
        /\ Len(s_ret) = Min2(s_in.want, Len(collected))
        /\ \A i, j \in 1..Len(s_ret) : i < j => RowDt(s_ret[i]) >= RowDt(s_ret[j])
        /\ \A i \in 1..Len(s_ret) : \E k \in 1..Len(collected) : collected[k] = s_ret[i]
        /\ \A k \in 1..Len(collected) :
              (\A i \in 1..Len(s_ret) : s_ret[i] # collected[k]) =>
                  \A i \in 1..Len(s_ret) : RowDt(collected[k]) <= RowDt(s_ret[i])

C10_Witness ==
    /\ s_pc = "returned"
    /\ Len(collected) > s_in.want
    /\ Len(s_ret) = 2
    /\ RowDt(s_ret[1]) > RowDt(s_ret[2])

\* Checked beside C7: on such a retry the cursor end stays, nothing is
\* collected, the width variable strictly decreases and the queried window
\* never grows.
ShrinkRetryKeepsCursor ==
    [][SaturatedAboveMin =>
        /\ cursor_end' = cursor_end
        /\ collected' = collected
        /\ chunk' < chunk
        /\ QueriedWidth' <= QueriedWidth]_vars

(***************************************************************************)
(* Properties of alarm_poll_loop (checked under SpecPoll).                 *)
(***************************************************************************)
\* The jobs submitted for the marker with this file name and begin time.
JobsOf(file, time) == {k \in 1..Len(jobs) : jobs[k].file = file /\ jobs[k].time = time}

\* C6: over all poll cycles and interleavings with running jobs, at most one
\* job is ever submitted for a marker (indeed for a file name), and the
\* marker's key is in known_files by the time its job is submitted.
C6_AtMostOneJobPerMarker ==
    /\ \A r \in PollRows : Cardinality(JobsOf(r.FileName, r.BeginTime)) <= 1
    /\ \A k, m \in 1..Len(jobs) : jobs[k].file = jobs[m].file => k = m
    /\ \A k \in 1..Len(jobs) : jobs[k].file \in known_files

\* A marker with a job from an earlier cycle is returned again, twice, by
\* the current poll, and that poll's critical section has run.
C6_Witness ==
    /\ polls = 3
    /\ p_pc = "record"
    /\ Len(p_rows) = 2
    /\ p_rows[1] = p_rows[2]
    /\ JobsOf(p_rows[1].FileName, p_rows[1].BeginTime) # {}
    /\ \E k \in 1..Len(jobs) : jobs[k].st = "extracted"

(***************************************************************************)
(* Properties of _download_with_retries (checked under SpecDownload).      *)
(***************************************************************************)
\* C11: _download_with_retries makes at most N = max(1, retries) attempts,
\* stops at the first success (a payload is the last outcome and is what is
\* returned), sleeps the fixed backoff exactly once between two consecutive
\* attempts and never after the last one, and raises only when all N attempts
\* failed, the raised error being that of the last attempt.
C11_AtMostNAttemptsLastErrorRaised ==
    /\ Len(d_log) <= (IF d_in.retries >= 1 THEN d_in.retries ELSE 1)
    /\ \A i \in 1..Len(d_log) :
          d_log[i] = "payload" => (i = Len(d_log) /\ d_pc = "returned" /\ d_out = "payload")
    /\ d_pc = "returned" => (Len(d_log) >= 1 /\ d_log[Len(d_log)] = "payload")
    /\ d_pc = "attempt" => d_sleeps = Len(d_log)
    /\ d_pc \in {"sleep", "returned", "raised"} => d_sleeps = Len(d_log) - 1
    /\ d_pc = "raised" =>
          /\ Len(d_log) = (IF d_in.retries >= 1 THEN d_in.retries ELSE 1)
          /\ \A i \in 1..Len(d_log) : d_log[i] \in DownloadErrors
          /\ d_out = d_log[Len(d_log)]
          /\ last_err = d_out

\* Three attempts were allowed, the first two failed with different errors
\* and the third failed too: its error is the one raised.
C11_Witness ==
    /\ d_in.retries = 3
    /\ d_pc = "raised"
    /\ d_log = <<"timeout", "reset", "socket_closed">>
    /\ d_out = "socket_closed"
    /\ d_sleeps = 2

\* C12 as stated: with retries = 2, when the first two attempts fail with a
\* connection reset the call does not end with an error (a third attempt is
\* made).
C12_Original ==
    (d_in.retries = 2 /\ Len(d_log) >= 2 /\ d_log[1] = "reset" /\ d_log[2] = "reset")
        => d_pc # "raised"

\* C12, amended: retries counts all the attempts, the first included. With
\* retries = 2, once the first two attempts have failed with a connection
\* reset the call has ended by raising the second reset, and no third attempt
\* is made.
C12_TwoAttemptsInAll ==
    (d_in.retries = 2 /\ Len(d_log) >= 2 /\ d_log[1] = "reset" /\ d_log[2] = "reset")
        => (d_pc = "raised" /\ d_out = "reset" /\ Len(d_log) = 2 /\ d_sleeps = 1)

C12_Witness ==
    /\ d_in.retries = 2
    /\ d_log = <<"reset", "reset">>
    /\ d_pc = "raised"

\* The errors the error taxonomy calls fatal: a refused login and the two
\* framing errors.
FatalErrors == {"login_failed", "socket_closed", "invalid_magic"}

\* C13 as stated: an attempt that ends with an authentication or framing
\* error is the last attempt of the call, and its error is the one raised.
C13_Original ==
    \A i \in 1..Len(d_log) :
        d_log[i] \in FatalErrors => (i = Len(d_log) /\ d_pc = "raised" /\ d_out = d_log[i])

\* C13, amended: authentication and framing errors are retried like the
\* transient ones. Such an error ends the call only when it is the error of
\* the last allowed attempt; on an earlier attempt the backoff and a further
\* attempt follow.
C13_EveryErrorRetried ==
    \A i \in 1..Len(d_log) :
        d_log[i] \in FatalErrors =>
            IF i < (IF d_in.retries >= 1 THEN d_in.retries ELSE 1)
            THEN \/ i < Len(d_log)
                 \/ d_pc \in {"sleep", "attempt"}
            ELSE i = Len(d_log) /\ d_pc = "raised" /\ d_out = d_log[i]

\* A refused login on the first attempt was followed by a second attempt,
\* which returned the payload.
C13_Witness ==
    /\ d_log = <<"login_failed", "payload">>
    /\ d_pc = "returned"
    /\ d_sleeps = 1

\* Job k took the step: its state changed.
JobStepped(k) == k <= Len(jobs) /\ jobs'[k] # jobs[k]

\* The histories list the same markers in the same order.
SameMarkers(l1, l2) ==
    /\ Len(l1) = Len(l2)
    /\ \A i \in 1..Len(l1) : l1[i].file = l2[i].file /\ l1[i].time = l2[i].time

\* C14 (state part): when a job is about to be submitted the record of its
\* marker is already at the front of the history (of a history that holds
\* any record at all), with no photo; every job has ended in one of the two
\* ways the job function allows, normally or in its exception handler; and
\* the record of a marker whose job got no JPEG, while it is in the history,
\* has photo_file None.
C14_RecordKeptWithoutPhoto ==
    /\ (p_pc = "submit" /\ p_in.history_max >= 1) =>
          /\ Len(alarms) >= 1
          /\ alarms[1].file = new_markers[p_i].FileName
          /\ alarms[1].time = new_markers[p_i].BeginTime
          /\ alarms[1].photo_file = ""
    /\ \A k \in 1..Len(jobs) :
          /\ jobs[k].st \in {"queued", "extracted", "updated", "done", "failed"}
          /\ jobs[k].jpeg = "" =>
                \A i \in 1..Len(alarms) :
                    alarms[i].file = jobs[k].file => alarms[i].photo_file = ""

\* C14 (step part): a step of a job leaves the markers listed in the history
\* and the position of the poll loop as they are, and a job that ends in its
\* exception handler has stored the error in polling_last_error.
C14_JobStep ==
    \A k \in 1..Len(jobs) :
        JobStepped(k) =>
            /\ SameMarkers(alarms', alarms)
            /\ p_pc' = p_pc
            /\ polls' = polls
            /\ jobs'[k].st = "failed" => last_error' = "error"

\* C14: a failed extraction never raises out of a job and never drops the
\* alarm (the two parts above, at every state and every step).
C14_FailedExtractionKeepsAlarm == []C14_RecordKeptWithoutPhoto /\ [][C14_JobStep]_vars

\* A job ended in its exception handler, another one ended without a JPEG,
\* both records are in the history without photo, and the loop has gone on
\* to a later cycle.
C14_Witness ==
    /\ Len(jobs) = 2
    /\ jobs[1].st = "failed"
    /\ jobs[2].st = "done" /\ jobs[2].jpeg = ""
    /\ Len(alarms) = 2
    /\ alarms[1].photo_file = "" /\ alarms[2].photo_file = ""
    /\ alarms[1].updated /\ ~alarms[2].updated
    /\ last_error = "error"
    /\ polls = 3

\* The poll loop is between two cycles (asleep at line 167 or about to fetch).
BetweenCycles == p_pc = "fetch"

\* C15: the poll loop never waits for a job. Whatever the jobs do, also when
\* one of them never finishes, every cycle the loop has started comes to its
\* end, so the loop is between two cycles again and again.
C15_LoopNeverWaitsForJob == []<>BetweenCycles

\* The job of a marker found in an earlier cycle has not even started its
\* extraction, and a later cycle has found another marker, recorded it and
\* submitted its job.
C15_Witness ==
    /\ polls = 3
    /\ Len(jobs) = 2
    /\ jobs[1].st = "queued"
    /\ jobs[2].st = "queued"
    /\ p_pc = "fetch"
    /\ last_check = 3
    /\ Len(alarms) = 2

\* The poll loop took the step.
LoopStepped ==
    \/ p_pc' # p_pc
    \/ polls' # polls
    \/ p_i' # p_i
    \/ (store_lock.by # "poll" /\ store_lock'.by = "poll")

\* C17: a thread that holds store_lock performs no network operation and no
\* photo save. The fetch of a cycle is made by a loop that does not hold the
\* lock; the extraction with its photo save and the notification of job k
\* are made by a job that does not hold the lock. A step the loop takes
\* while it holds the lock changes nothing but the known set, the new
\* markers picked from it, the history and last_check, and releases the
\* lock; a step job k takes while it holds the lock only updates the history
\* and releases the lock.
C17_Step ==
    /\ polls' # polls => store_lock.by # "poll"
    /\ \A k \in 1..Len(jobs) :
          /\ (jobs[k].st = "queued" /\ jobs'[k].st # "queued") =>
                store_lock # [by |-> "job", job |-> k]
          /\ (jobs[k].st = "updated" /\ jobs'[k].st # "updated") =>
                store_lock # [by |-> "job", job |-> k]
          /\ (store_lock = [by |-> "job", job |-> k] /\ JobStepped(k)) =>
                /\ jobs[k].st = "extracted" /\ jobs'[k].st = "updated"
                /\ sent' = sent
                /\ last_error' = last_error
                /\ known_files' = known_files
                /\ store_lock'.by = "nobody"
    /\ sent' # sent => \E k \in 1..Len(jobs) : JobStepped(k) /\ jobs[k].st = "updated"
    /\ (store_lock.by = "poll" /\ LoopStepped) =>
          /\ polls' = polls
          /\ jobs' = jobs
          /\ sent' = sent
          /\ last_error' = last_error
          /\ store_lock'.by = "nobody"

C17_NoNetworkUnderLock == [][C17_Step]_vars

\* The second job holds the lock for its update while the first job, which
\* has left its critical section, is about to notify and the loop is waiting
\* for the lock with rows fetched.
C17_Witness ==
    /\ Len(jobs) = 2
    /\ store_lock = [by |-> "job", job |-> 2]
    /\ jobs[1].st = "updated"
    /\ p_pc = "select"

\* Job k took the step that ends its critical section.
JobUpdated(k) == k <= Len(jobs) /\ jobs[k].st = "extracted" /\ jobs'[k].st = "updated"

\* C18: the update step of job k changes at most the one record whose file
\* name is the job's, wherever that record now is in the history; that
\* record had not been updated before and gets the job's photo and size; when
\* no record has the job's file name (it was evicted, or never fitted) the
\* history is left as it is. No other step changes the photo of a record.
C18_Step ==
    /\ \A k \in 1..Len(jobs) :
          JobUpdated(k) =>
              /\ Len(alarms') = Len(alarms)
              /\ \A i \in 1..Len(alarms) :
                    IF alarms[i].file = jobs[k].file
                    THEN /\ ~alarms[i].updated
                         /\ alarms[i].time = jobs[k].time
                         /\ alarms'[i].photo_file = jobs[k].jpeg
                         /\ alarms'[i].size = (IF jobs[k].jpeg = "" THEN 0 ELSE 1)
                         /\ alarms'[i].updated
                         /\ alarms'[i].file = alarms[i].file
                         /\ alarms'[i].time = alarms[i].time
                    ELSE alarms'[i] = alarms[i]
    /\ (\A k \in 1..Len(jobs) : ~JobUpdated(k)) =>
          \A i \in 1..Len(alarms) : \A j \in 1..Len(alarms') :
              alarms'[j].file = alarms[i].file =>
                  /\ alarms'[j].photo_file = alarms[i].photo_file
                  /\ alarms'[j].updated = alarms[i].updated

C18_UpdateByFileName == [][C18_Step]_vars

\* The first job completed after the record of a later marker had been put
\* in front of its own: the record updated is the second one, the front
\* record is untouched.
C18_Witness ==
    /\ Len(jobs) = 2 /\ Len(alarms) = 2
    /\ jobs[1].st = "updated" /\ jobs[1].jpeg = "jpegA"
    /\ jobs[2].st = "queued"
    /\ alarms[2].file = jobs[1].file
    /\ alarms[2].photo_file = "jpegA" /\ alarms[2].updated
    /\ alarms[1].file = jobs[2].file
    /\ alarms[1].photo_file = "" /\ ~alarms[1].updated

\* The markers of the current cycle whose record has been inserted.
Recorded == IF p_pc = "submit" THEN p_i ELSE p_i - 1

C20_Bounded ==
    /\ Len(alarms) <= p_in.history_max
    /\ \A i, j \in 1..Len(alarms) : \A k, m \in 1..Len(jobs) :
          (i < j /\ jobs[k].file = alarms[i].file /\ jobs[m].file = alarms[j].file) => k > m

\* C20 (step part): an insertion puts the new record at the front, moves each
\* record kept one place back and, when the history was full, drops the
\* record at the end, the least recently inserted one.
C20_Insert ==
    (p_pc = "record" /\ p_pc' = "submit") =>
        /\ Len(alarms') = (IF Len(alarms) + 1 <= p_in.history_max
                           THEN Len(alarms) + 1 ELSE p_in.history_max)
        /\ Len(alarms') >= 1 =>
              /\ alarms'[1].file = new_markers[p_i].FileName
              /\ alarms'[1].time = new_markers[p_i].BeginTime
              /\ alarms'[1].photo_file = ""
        /\ \A i \in 2..Len(alarms') : alarms'[i] = alarms[i - 1]

\* C20: the history is bounded by history_max, evicts the least recently
\* inserted record and keeps the newest record at the front.
C20_BoundedHistoryNewestFirst == []C20_Bounded /\ [][C20_Insert]_vars

\* With history_max = 1 the record of the second marker of a cycle has taken
\* the place of the first marker's record.
C20_Witness ==
    /\ p_in.history_max = 1
    /\ p_pc = "submit"
    /\ p_i = 2
    /\ Len(jobs) = 1
    /\ Len(alarms) = 1
    /\ alarms[1].file = new_markers[2].FileName
    /\ alarms[1].file # jobs[1].file

(***************************************************************************)
(* Properties of the threads that share a store (C16: the poll loop and    *)
(* its jobs under SpecPoll, the threads of server.py under SpecServer).    *)
(***************************************************************************)
\* alarm_history_poll_loop took the step.
HistStepped == hist_pc' # hist_pc \/ hist_i' # hist_i \/ hist_polls' # hist_polls

\* The callback's job took the step.
CbStepped == cb_pc' # cb_pc

\* C16 as stated: every step that changes a known-events set or an alarm
\* history is taken by a thread that holds the lock of that store: the poll
\* loop or a job of alarm_poll_loop holding store_lock, and
\* alarm_history_poll_loop or the callback's job holding
\* alarm_store["lock"].
C16_Step ==
    /\ (known_files' # known_files \/ alarms' # alarms) =>
          \/ store_lock.by = "poll" /\ LoopStepped
          \/ \E k \in 1..Len(jobs) : store_lock = [by |-> "job", job |-> k] /\ JobStepped(k)
    /\ (srv_known_files' # srv_known_files \/ srv_alarms' # srv_alarms) =>
          \/ srv_lock = "hist" /\ HistStepped
          \/ srv_lock = "cb" /\ CbStepped

C16_Original == [][C16_Step]_vars

(***************************************************************************)
(* Properties of the poll loop's known set and notifications (SpecPoll).   *)
(***************************************************************************)
\* C21 as stated: a marker is known only if its pair (file name, begin time)
\* was seen before. Every marker the loop has seen has its file name in
\* known_files, so a row of the current reply whose file name is not in
\* known_files when the critical section starts is a pair never seen before:
\* each such row is among the new markers of the cycle, also when two rows of
\* the reply share the file name and differ in the begin time.
C21_Step ==
    (p_pc = "select" /\ p_pc' = "record") =>
        \A i \in 1..Len(p_rows) :
            (p_rows[i].FileName # "" /\ p_rows[i].FileName \notin known_files) =>
                \E j \in 1..Len(new_markers') : new_markers'[j] = p_rows[i]

C21_Original == [][C21_Step]_vars

\* C22 as stated: the markers in the camera's index when the loop starts only
\* seed the known set: no job is ever submitted and no notification is ever
\* sent for one of them, and no job is submitted before the loop has seeded,
\* also when the first fetches fail to log in or return nothing.
C22_Original ==
    /\ \A k \in 1..Len(jobs) :
            [FileName |-> jobs[k].file, BeginTime |-> jobs[k].time] \notin index0
    /\ \A n \in 1..Len(sent) : \A r \in index0 : sent[n].file # r.FileName
    /\ ~seeded => jobs = <<>>

\* Jobs whose run has ended, normally or in the handler of lines 152-157.
Finished == {k \in 1..Len(jobs) : jobs[k].st \in {"done", "failed"}}

\* C23 as stated: for every job the pool has run to its end the notifier was
\* called exactly once, with the JPEG when extraction produced one and without
\* a photo otherwise, whatever the outcome of extraction and of saving the
\* photo: there are as many send_telegram calls as ended jobs, and each ended
\* job has a call for its file that carries its JPEG.
C23_Original ==
    /\ Len(sent) = Cardinality(Finished)
    /\ \A k \in Finished :
            \E n \in 1..Len(sent) :
                sent[n].file = jobs[k].file /\ sent[n].photo = jobs[k].jpeg

(***************************************************************************)
(* Properties of download_motion_file_h264 (SpecFileDownload).             *)
(***************************************************************************)
\* The payloads of the packets with message id 1426 among the first t packets
\* of stream, concatenated in arrival order.
RECURSIVE Payloads1426(_, _)
Payloads1426(stream, t) ==
    IF t = 0 THEN <<>>
    ELSE Payloads1426(stream, t - 1)
            \o (IF stream[t].msgid = 1426 THEN stream[t].payload ELSE <<>>)

\* Packet t is the first packet of stream whose flag byte b2 is not zero.
FirstTerminal(stream, t) ==
    /\ t \in 1..Len(stream)
    /\ stream[t].b2 # 0
    /\ \A i \in 1..(t - 1) : stream[i].b2 = 0

\* C24: the bytes download_motion_file_h264 returns are the payloads of the
\* data packets with message id 1426, in arrival order, up to and including
\* the first packet whose flag byte b2 is not zero; payloads of other message
\* ids are left out and no packet after the terminal one is read. While the
\* loop runs, no packet read so far was terminal, and the loop is left without
\* a terminal packet only by an error of the read (connection ended or wrong
\* magic byte).
C24_BytesAre1426PayloadsUpToTerminal ==
    /\ f_pc = "returned" =>
            /\ FirstTerminal(f_stream, packets)
            /\ f_out = Returned(Payloads1426(f_stream, packets))
    /\ f_pc = "read" =>
            /\ packets <= Len(f_stream)
            /\ \A i \in 1..packets : f_stream[i].b2 = 0
            /\ raw_1426 = Payloads1426(f_stream, packets)
    /\ (f_pc = "raised" /\ data_sock = "closed") =>
            /\ f_out.kind = "error"
            /\ \A i \in 1..packets : f_stream[i].b2 = 0
            /\ (f_out.error = "invalid DVRIP magic") =>
                    (packets < Len(f_stream) /\ f_stream[packets + 1].magic # 255)

\* A call has returned after a packet of another message id that carried a
\* payload, its terminal packet had message id 1426 and a payload, and the
\* camera sent one more packet after it.
C24_Witness ==
    /\ f_pc = "returned"
    /\ packets = 2
    /\ Len(f_stream) = 3
    /\ f_stream[1].msgid # 1426 /\ f_stream[1].payload # <<>>
    /\ f_stream[2].msgid = 1426 /\ f_stream[2].payload # <<>>
    /\ f_out.bytes = f_stream[2].payload

\* C25 as stated: once the call has returned or raised, neither the control
\* socket nor the data socket is open, on every way out.
C25_Original ==
    f_pc \in {"returned", "raised"} => (ctl # "open" /\ data_sock # "open")

(***************************************************************************)
(* Properties of _pick_closest_file (SpecPick).                            *)
(***************************************************************************)
\* The begin time of row r parses.
Parseable(r) == _parse_dt(r.BeginTime) # NoneDt

\* The interval [begin, end] of row r holds the target.
Contains(r, target) ==
    /\ _parse_dt(r.EndTime) # NoneDt
    /\ _parse_dt(r.BeginTime) <= target
    /\ target <= _parse_dt(r.EndTime)

\* Distance in seconds between the begin time of row r and the target.
BeginDelta(r, target) ==
    IF _parse_dt(r.BeginTime) >= target
    THEN _parse_dt(r.BeginTime) - target
    ELSE target - _parse_dt(r.BeginTime)

\* Row r is strictly better than row q: it holds the target and q does not,
\* or both are of one class and r begins nearer to the target.
Better(r, q, target) ==
    \/ Contains(r, target) /\ ~Contains(q, target)
    \/ /\ Contains(r, target) = Contains(q, target)
       /\ BeginDelta(r, target) < BeginDelta(q, target)

\* C26: _pick_closest_file returns None exactly when no row has a parseable
\* begin time; otherwise it returns the first row in list order among the
\* parseable rows that no parseable row is better than, where a row whose
\* [begin, end] holds the target is better than every row that does not,
\* whatever the deltas, and within one class the smaller |begin - target| is
\* better. For begins 10:00:05, 10:00:09 (end 10:00:12) and 10:05:00 with
\* target 10:00:10 the 10:00:09 row is returned.
C26_PickMinimisesRangeThenDelta ==
    k_pc = "returned" =>
        LET rows == k_in.rows
            t == k_in.target
            ok == {i \in 1..Len(rows) : Parseable(rows[i])}
            best == {i \in ok : \A j \in ok : ~Better(rows[j], rows[i], t)}
        IN  /\ (k_ret = None) <=> (ok = {})
            /\ ok # {} =>
                    \E i \in best :
                        /\ k_ret = Some(rows[i])
                        /\ \A j \in best : i <= j
            /\ (/\ t = TargetDt
                /\ Len(rows) = 3
                /\ rows[1].BeginTime = "2024-01-01 10:00:05" /\ rows[1].EndTime = ""
                /\ rows[2].BeginTime = "2024-01-01 10:00:09"
                /\ rows[2].EndTime = "2024-01-01 10:00:12"
                /\ rows[3].BeginTime = "2024-01-01 10:05:00")
                    => k_ret = Some(rows[2])

\* A call has returned the second of three rows: it holds the target, the
\* first row begins as near as any other but does not hold it, and the third
\* row ties with the second.
C26_Witness ==
    /\ k_pc = "returned"
    /\ k_in.target = TargetDt
    /\ Len(k_in.rows) = 3
    /\ ~Contains(k_in.rows[1], TargetDt)
    /\ BeginDelta(k_in.rows[1], TargetDt) < BeginDelta(k_in.rows[2], TargetDt)
    /\ Contains(k_in.rows[2], TargetDt)
    /\ Contains(k_in.rows[3], TargetDt)
    /\ BeginDelta(k_in.rows[3], TargetDt) = BeginDelta(k_in.rows[2], TargetDt)
    /\ k_in.rows[3] # k_in.rows[2]
    /\ k_ret = Some(k_in.rows[2])

(***************************************************************************)
(* The corruption flag of the photo-marker frame (SpecHybrid).             *)
(***************************************************************************)
\* C30 as stated: a decoded photo-marker frame is corrupted exactly when its
\* bottom-white ratio is strictly greater than the threshold: a frame whose
\* ratio is less than or equal to the threshold does not trigger the motion
\* fallback (no motion login, query or download) and is the frame returned.
C30_Original ==
    (/\ idea1_jpeg # ""
     /\ idea1_meta.bottom_white_ratio # NoBw
     /\ idea1_meta.bottom_white_ratio <= h_in.bottom_white_threshold)
    => /\ ~MotionStarted
       /\ h_pc = "returned" => (h_ret = idea1_jpeg /\ meta.chosen = "idea1")

(***************************************************************************)
(* Properties of the frame choice (SpecChoose).                            *)
(***************************************************************************)
\* The target indices the loop decoded: those the clip has a frame for.
Decoded == {i \in TargetSet(c_in.sample) : i < c_in.decodable}

\* C27: extract_best_jpeg_from_motion_h264 chooses no frame exactly when no
\* target index was decoded; otherwise the chosen index is a decoded target
\* index, no decoded target frame has a higher score, and every decoded
\* target frame of the same score has a greater or equal index. With
\* sharpness 150 at index 60 and 90 at index 0 in sharpness mode the chosen
\* index is 60.
C27_HighestScoreFirstIndex ==
    c_pc = "returned" =>
        LET idx == c_ret.chosen_frame_index
            sc(i) == Score(c_in.frames[i], c_in.mode)
        IN  /\ (idx = NoIdx) <=> (Decoded = {})
            /\ idx # NoIdx =>
                    /\ idx \in Decoded
                    /\ \A j \in Decoded : sc(j) <= sc(idx)
                    /\ \A j \in Decoded : sc(j) = sc(idx) => idx <= j
            /\ (/\ c_in.mode = "sharpness"
                /\ c_in.sample = <<0, 60>>
                /\ c_in.decodable > 60
                /\ c_in.frames[60].sharp = 150
                /\ c_in.frames[0].sharp = 90) => idx = 60

\* A call in content mode has chosen index 10 of the decoded targets 0, 10
\* and 60: frame 0 scores less, frame 60 scores the same as frame 10.
C27_Witness ==
    /\ c_pc = "returned"
    /\ c_in.mode = "content"
    /\ c_in.sample = <<60, 10, 0>>
    /\ c_in.decodable = 61
    /\ Score(c_in.frames[0], "content") < Score(c_in.frames[10], "content")
    /\ Score(c_in.frames[60], "content") = Score(c_in.frames[10], "content")
    /\ c_in.frames[60] # c_in.frames[10]
    /\ c_ret.chosen_frame_index = 10

(***************************************************************************)
(* Properties of _extract_media_from_1426 (SpecDemux).                     *)
(***************************************************************************)
\* C28 as stated: demuxing is idempotent: for every tagged-block stream the
\* demuxer applied to its own output returns that output unchanged.
C28_Original == x_pc = "twice" => x_twice = x_once

(***************************************************************************)
(* Properties of concurrent extraction calls (SpecExtract).                *)
(***************************************************************************)
\* C29 as stated: concurrent extraction jobs do not interfere: the frames a
\* call decodes derive only from the media of the payload that call
\* downloaded, and between a call's write of its intermediate media file and
\* its own removal of it no other call overwrites or deletes that file.
C29_Original ==
    \A w \in Calls :
        /\ e_src[w] \in {NoCall, w}
        /\ e_pc[w] \in {"written", "opened", "decoded"} => files[e_path[w]] = w

(***************************************************************************)
(* Properties of the download commands (SpecRequest).                      *)
(***************************************************************************)
\* C31 as stated: no download command is issued with an empty EndTime or with
\* an EndTime equal to its StartTime: when the chosen row's end time is empty
\* or equal to its begin time, every command of the call carries the begin
\* time plus one second.
C31_Original ==
    \A i \in 1..Len(r_req) :
        /\ r_req[i].end # ""
        /\ _parse_dt(r_req[i].end) # _parse_dt(r_req[i].begin)
        /\ (r_in.row.EndTime = ""
            \/ _parse_dt(r_in.row.EndTime) = _parse_dt(r_in.row.BeginTime))
                => _parse_dt(r_req[i].end) = _parse_dt(r_in.row.BeginTime) + 1

(***************************************************************************)
(* Properties of the window width and the cursor of the scan (SpecScan).   *)
(***************************************************************************)
\* One iteration of the scan loop has run: a query was answered.
Iterated == s_pc = "loop" /\ s_pc' = "loop" /\ meta_chunks' # meta_chunks

\* The chunk of that iteration was accepted: the cursor moved.
Accepted == Iterated /\ cursor_end' # cursor_end

\* The reply of that iteration reached cap_guard.
Saturated == rows_len'.raw >= s_in.cap_guard

\* The width is within [minimum, cap] once the loop has started.
WidthInBounds ==
    (s_pc = "loop" /\ s_in.min_chunk_seconds <= 60 * s_in.initial_chunk_minutes
                  /\ 60 * s_in.initial_chunk_minutes <= 14400)
        => (s_in.min_chunk_seconds <= chunk /\ chunk <= 14400)

\* After an accepted chunk the width doubles, capped at four hours, exactly
\* when the chunk returned fewer than max(1, want // 3) rows.
GrowsExactlyWhenSparse ==
    Accepted =>
        IF rows_len'.raw < (IF s_in.want \div 3 >= 1 THEN s_in.want \div 3 ELSE 1)
        THEN chunk' = (IF 2 * chunk <= 14400 THEN 2 * chunk ELSE 14400)
        ELSE chunk' = chunk

\* C32 as stated: the width doubles (capped) exactly when an accepted chunk
\* returned fewer than want/3 rows, it never grows after a saturated chunk,
\* and it stays within [minimum, cap].
C32_Original ==
    /\ []WidthInBounds
    /\ [][GrowsExactlyWhenSparse /\ ((Iterated /\ Saturated) => chunk' <= chunk)]_vars

\* C32, amended: after an accepted chunk the width doubles, capped at four
\* hours, exactly when the chunk returned fewer than max(1, want // 3) rows;
\* a saturated chunk met above the minimum width is not accepted and the width
\* shrinks, while a saturated chunk at the minimum width is accepted and is
\* followed by doubling like any other accepted chunk (when cap_guard is below
\* want // 3); with an initial width between the minimum and the cap the width
\* stays within [minimum, cap] for the whole scan.
C32_GrowsWhenSparseWithinBounds ==
    /\ []WidthInBounds
    /\ [][/\ GrowsExactlyWhenSparse
          /\ (Iterated /\ Saturated /\ chunk > s_in.min_chunk_seconds)
                => (~Accepted /\ chunk' < chunk)]_vars

\* A saturated chunk was met above the minimum width and shrunk to it, then a
\* saturated chunk was accepted at the minimum width and the width doubled.
C32_Witness ==
    /\ s_pc = "loop"
    /\ Len(meta_chunks) = 2
    /\ meta_chunks[1].chunk_sec > s_in.min_chunk_seconds
    /\ meta_chunks[2].chunk_sec = s_in.min_chunk_seconds
    /\ meta_chunks[2].begin = cursor_end
    /\ rows_len.raw >= s_in.cap_guard
    /\ chunk = 2 * s_in.min_chunk_seconds

(***************************************************************************)
(* Properties of the demuxer's loop (SpecLoop).                            *)
(***************************************************************************)
\* The loop computes what the function returns.
LoopAgreesWithFunction == y_pc = "done" => y_out = _extract_media_from_1426(y_in)

\* What the pieces stand for: the recognized blocks, and the payload a piece
\* carries (a JPEG signature is passed through, a stray byte carries none).
Blocks == { VideoBlock(Nal), AudioBlock(<<9>>), AuxBlock(<<8>>), VideoBlock(<<>>) }

PayloadOf(piece) ==
    IF piece = VideoBlock(Nal) THEN Nal
    ELSE IF piece = AudioBlock(<<9>>) THEN <<9>>
    ELSE IF piece = AuxBlock(<<8>>) THEN <<8>>
    ELSE IF piece = JpegSignature THEN JpegSignature
    ELSE <<>>

\* The payload bytes of the pieces that are present in the first n bytes of
\* their stream.
RECURSIVE PayloadsWithin(_, _)
PayloadsWithin(pieces, n) ==
    IF pieces = <<>> THEN <<>>
    ELSE LET piece == Head(pieces)
             payload == PayloadOf(piece)
             header == Len(piece) - Len(payload)
         IN  IF n >= Len(piece)
             THEN payload \o PayloadsWithin(Tail(pieces), n - Len(piece))
             ELSE IF piece \in Blocks /\ n > header
                  THEN SubSeq(payload, 1, n - header)
                  ELSE <<>>

Payloads(pieces) == PayloadsWithin(pieces, Len(Flatten(pieces)))

\* The loop is about to read a tag (remain = 0, four bytes left).
ReadsTag == y_pc = "loop" /\ y_remain = 0 /\ y_cursor + 4 <= Len(y_in)

TagHere == SubSeq(y_in, y_cursor + 1, y_cursor + 4)

\* C38 as stated: a recognized block whose declared payload length is 0 does
\* not stop demuxing: it contributes no bytes, and the loop goes on behind
\* its header, so that the blocks that follow are parsed and output.
C38_Original ==
    [][(/\ ReadsTag
        /\ y_cursor + 16 < Len(y_in)
        /\ SubSeq(y_in, y_cursor + 1, y_cursor + 16) = VideoBlock(<<>>))
       => (y_pc' = "loop" /\ y_out' = y_out /\ y_cursor' = y_cursor + 16)]_vars

\* The loop reads a tag that is none of the block tags and not the JPEG
\* signature.
ReadsUnrecognizedTag ==
    /\ ReadsTag
    /\ TagHere \notin VideoTags \cup AuxTags \cup {TagAudio, JpegSignature}

\* sfx is the end of s.
EndsWith(s, sfx) ==
    /\ Len(sfx) <= Len(s)
    /\ SubSeq(s, Len(s) - Len(sfx) + 1, Len(s)) = sfx

\* C33 as stated: on an unrecognized tag the loop does not stop: it resumes
\* one byte after the position where the tag started and emits nothing for
\* it; and in a whole stream the payload of every recognized block that
\* begins after a stray byte is output.
C33_Original ==
    /\ [][ReadsUnrecognizedTag
           => (/\ y_pc' = "loop"
               /\ y_cursor' = y_cursor + 1
               /\ y_remain' = 0
               /\ y_out' = y_out)]_vars
    /\ [](\A i \in DOMAIN y_pieces :
            (/\ y_pc = "done"
             /\ y_in = Flatten(y_pieces)
             /\ y_pieces[i] = <<7>>
             /\ \A j \in (i + 1)..Len(y_pieces) : y_pieces[j] \in Blocks)
            => EndsWith(y_out, Payloads(SubSeq(y_pieces, i + 1, Len(y_pieces)))))

\* C34 as stated: for a stream that is a sequence of well-formed recognized
\* blocks, possibly cut short by the end of input, the output is the
\* concatenation of the payload bytes of every block that are present, in
\* stream order, without tags and sub-headers.
C34_Original ==
    (/\ y_pc = "done"
     /\ \A i \in DOMAIN y_pieces : y_pieces[i] \in Blocks)
    => y_out = PayloadsWithin(y_pieces, Len(y_in))

\* C37: the loop terminates on every input: the cursor never passes the end
\* of the input, every iteration leaves the loop or moves the cursor
\* strictly forward (a resynchronization included, so the cursor is never
\* before a position already passed), and the output is never longer than
\* the part of the input behind the cursor.
C37_LoopProgresses ==
    /\ [](y_cursor <= Len(y_in) /\ Len(y_out) <= y_cursor)
    /\ [][y_pc = "loop" => (y_pc' = "done" \/ y_cursor' > y_cursor)]_vars

\* A run that resynchronized over stray bytes, passed a JPEG signature and
\* ended in a block cut short.
C37_Witness ==
    /\ y_pc = "done"
    /\ y_pieces = << <<7>>, JpegSignature, VideoBlock(Nal) >>
    /\ Len(y_in) = Len(Flatten(y_pieces)) - 2
    /\ y_cursor = Len(y_in)
    /\ y_out = JpegSignature \o <<0, 0, 0>>

(***************************************************************************)
(* Properties of the windows of the scan (SpecScan, SpecScanFair).         *)
(***************************************************************************)
\* The query of the iteration that has just run.
LastQuery == meta_chunks'[Len(meta_chunks')]

\* The reply of that iteration is taken: it did not reach cap_guard, or the
\* width is at the minimum already.
Taken == ~(rows_len'.raw >= s_in.cap_guard /\ chunk > MinChunk(s_in))

\* C35: the accepted windows tile the timeline: every query ends at the
\* cursor, which starts at end_dt, and starts no earlier than end_dt minus
\* the maximum lookback; the cursor moves to the start of a window exactly
\* when the window is accepted; and the loop runs exactly while fewer than
\* want rows are collected and the cursor is above that horizon.
C35_WindowsTileTheTimeline ==
    /\ [](s_pc \in {"start", "login"} => cursor_end = EndDt)
    /\ [](s_pc = "loop" => (OldestAllowed(s_in) <= cursor_end /\ cursor_end <= EndDt))
    /\ [][Iterated
           => (/\ ScanContinues
               /\ LastQuery.end = cursor_end
               /\ LastQuery.begin >= OldestAllowed(s_in)
               /\ LastQuery.begin < LastQuery.end
               /\ cursor_end' = IF Taken THEN LastQuery.begin ELSE cursor_end)]_vars
    /\ [][(s_pc = "loop" /\ s_pc' = "returned") => ~ScanContinues]_vars

\* A scan that accepted several windows and returned at the horizon.
C35_Witness ==
    /\ s_pc = "returned"
    /\ s_meta.ok
    /\ cursor_end = OldestAllowed(s_in)
    /\ Len(collected) < s_in.want
    /\ meta_chunks[1].end < EndDt
    /\ meta_chunks[1].begin = cursor_end

\* C36: the scan terminates for every sequence of replies: every iteration
\* either strictly shrinks the width, not below the minimum, and keeps the
\* cursor, or moves the cursor strictly back, not below the horizon; and
\* the function is left in the end.
C36_ScanTerminates ==
    /\ [][Iterated
           => \/ (/\ chunk' < chunk
                  /\ chunk' >= MinChunk(s_in)
                  /\ cursor_end' = cursor_end)
              \/ (/\ cursor_end' < cursor_end
                  /\ cursor_end' >= OldestAllowed(s_in))]_vars
    /\ <>(s_pc \in {"returned", "raised"})

\* A scan whose every reply was saturated: it shrank the width down to the
\* minimum and then walked to the horizon.
C36_Witness ==
    /\ s_pc = "returned"
    /\ s_in.camera = "saturating"
    /\ s_meta.ok
    /\ chunk = MinChunk(s_in)
    /\ chunk < InitialChunk(s_in)
    /\ cursor_end = OldestAllowed(s_in)

(***************************************************************************)
(* Properties of the result of extract_alarm_photo_hybrid (SpecHybrid).    *)
(***************************************************************************)
FailureReasons ==
    {"no_photo", "dvrip_login_failed", "empty_password", "python-dvr_not_available"}

\* C39: every return of extract_alarm_photo_hybrid is consistent: JPEG
\* bytes are returned iff meta.ok; "ok" and "ok_but_bottom_white" come with
\* chosen "idea1" and the photo-marker frame, "ok_fallback_motion" with
\* chosen "motion" and the motion frame, a failure reason with ok = false,
\* chosen None and no JPEG; and the call is never left by an exception: an
\* error of a tier is recorded in that tier's meta and the call goes on to
\* a return.
C39_ResultConsistent ==
    /\ h_pc \in {"idle", "start", "idea1_login", "idea1_query", "idea1_download",
                 "idea1_extract", "decide", "motion_login", "motion_query",
                 "motion_download", "motion_extract", "final", "returned"}
    /\ (idea1_meta.error # "absent" /\ h_pc # "returned")
            => h_pc \in {"decide", "motion_login", "motion_query", "motion_download",
                         "motion_extract", "final"}
    /\ h_pc = "returned" =>
        /\ (h_ret # "") <=> meta.ok
        /\ meta.reason \in {"ok", "ok_but_bottom_white", "ok_fallback_motion"}
                               \cup FailureReasons
        /\ meta.reason \in {"ok", "ok_but_bottom_white"}
                => (meta.chosen = "idea1" /\ h_ret = idea1_jpeg /\ h_ret # "")
        /\ meta.reason = "ok_fallback_motion"
                => (meta.chosen = "motion" /\ h_ret = motion_jpeg /\ h_ret # "")
        /\ meta.reason \in FailureReasons
                => (~meta.ok /\ meta.chosen = "" /\ h_ret = "")

\* Both tiers raised; the call returned no_photo.
C39_Witness ==
    /\ h_pc = "returned"
    /\ idea1_meta.error = "error"
    /\ motion_meta.error = "error"
    /\ meta.reason = "no_photo"
    /\ ~meta.ok
    /\ h_ret = ""

(***************************************************************************)
(* Properties of the markers of one poll cycle (SpecPoll).                 *)
(***************************************************************************)
\* A cycle that selected new markers ends.
SelectCycleEnds == p_pc \in {"record", "submit"} /\ p_pc' = "fetch"

\* C40 as stated: no marker is lost between discovery and processing: when
\* a cycle ends, every marker it inserted into known_files has had its
\* record put into the history and its job submitted in that cycle, also
\* when submitting an earlier marker of the cycle raised.
C40_Original ==
    [][SelectCycleEnds
       => /\ p_i > Len(new_markers)
          /\ \A k \in 1..Len(new_markers) :
                /\ new_markers[k].FileName \in known_files
                /\ \E j \in 1..Len(jobs) :
                      /\ jobs[j].file = new_markers[k].FileName
                      /\ jobs[j].time = new_markers[k].BeginTime]_vars

=============================================================================
